---- MODULE Spec2Model ----
(***************************************************************************)
(* A model of lmp.script.ddp_train_model.main                              *)
(* (src/lmp/script/ddp_train_model.py), the distributed data parallel     *)
(* training script, as WorldSize cooperating processes.  Every process    *)
(* runs main from the namespace parse_args returned: the argument          *)
(* validation, saving the configuration, the TCP rendezvous, the argument  *)
(* synchronisation through the key-value store, the seeding, the data      *)
(* partitioning, the training loop under the DDP join context, and the     *)
(* last checkpoint.                                                        *)
(*                                                                         *)
(* Library behaviour the script relies on (torch.distributed.TCPStore,     *)
(* DistributedSampler, DataLoader, DistributedDataParallel and its join    *)
(* context) is modelled at the call site that uses it.                     *)
(*                                                                         *)
(* Further sections model the whitespace tokenizers (lmp.tknzr.WsTknzr,    *)
(* lmp.tokenizer.WhitespaceDictTokenizer), vocabulary building and the     *)
(* gate ranges of the LSTM-2002 model, each under a specification of its   *)
(* own over the same variables.                                            *)
(***************************************************************************)
EXTENDS Integers, Sequences, FiniteSets, TLC

\* ------------------------------------------------------------------ bounds

\* Number of processes of the job (the launcher's --world_size).
WorldSize == 2
\* Largest number of training epochs (--n_epoch) a launch is given.
MaxEpoch == 2
\* Largest checkpoint / log interval (--ckpt_step, --log_step) a launch is given.
MaxInterval == 2
\* Largest number of samples in a process's copy of the dataset.
MaxDsetLen == 5
\* Largest number of samples of the dataset in the model of the samplers.
MaxSamples == 4
\* Largest number of words in a text given to the tokenizer.
MaxWords == 2
\* Largest number of token ids in a sequence given to the tokenizer.
MaxIds == 3
\* Largest max_seq_len given to pad_to_max and trunc_to_max.
MaxSeqLen == 3
\* Largest number of tokenizer methods called in a row.
MaxOps == 2
\* Largest number of tokens of a training corpus.
MaxCorpus == 3
\* Largest --max_vocab given to tokenizer training.
MaxVocab == 5
\* Largest --min_count given to tokenizer training.
MaxMinCount == 2
\* Largest number of memory cell blocks of an LSTM-2002 model.
MaxBlk == 4
\* Largest number of cells in a block of an LSTM-2002 model.
MaxDBlk == 4
\* Largest embedding dimension of an LSTM-2002 model.
MaxDEmb == 4
\* Largest --warmup_step a training is given.
MaxWarmup == 2

\* ------------------------------------------------------- program constants

\* HOST_RANK: Final[int] = 0
HOST_RANK == 0

Ranks == 0 .. (WorldSize - 1)

\* A value that is no Python object of the model: "no entry", "not yet".
None == [t |-> "none", v |-> <<>>]

\* ---------------------------------------------------------- Python values
\* A value carries its Python type.  An int holds an integer; a float holds
\* its number of tenths (5 is 0.5, 10 is 1.0); a str holds its code points;
\* a bool holds a truth value; bytes hold the byte values 0..255.

PyInt(n) == [t |-> "int", v |-> n]
PyFloat(tenths) == [t |-> "float", v |-> tenths]
PyStr(cps) == [t |-> "str", v |-> cps]
PyBool(b) == [t |-> "bool", v |-> b]
PyBytes(bs) == [t |-> "bytes", v |-> bs]
\* What a constructor call that raises ValueError leaves behind.
PyError == [t |-> "error", v |-> 0]

TypeOf(x) == x.t

\* str(n) for n >= 0: the decimal digits, as code points.
RECURSIVE NatToStr(_)
NatToStr(n) ==
  IF n < 10 THEN <<48 + n>> ELSE NatToStr(n \div 10) \o <<48 + (n % 10)>>

\* str(n) for an int.
IntToStr(n) == IF n < 0 THEN <<45>> \o NatToStr(-n) ELSE NatToStr(n)

\* str(x) for a float of whole tenths: repr gives "<integer part>.<tenth>".
FloatToStr(f) ==
  LET a == IF f < 0 THEN -f ELSE f
      body == NatToStr(a \div 10) \o <<46>> \o <<48 + (a % 10)>>
  IN IF f < 0 THEN <<45>> \o body ELSE body

\* str(True) = 'True', str(False) = 'False'.
BoolToStr(b) == IF b THEN <<84, 114, 117, 101>> ELSE <<70, 97, 108, 115, 101>>

\* str(args.__dict__[k]), line 384: the text of a value.
Str(x) ==
  CASE x.t = "int" -> IntToStr(x.v)
    [] x.t = "float" -> FloatToStr(x.v)
    [] x.t = "bool" -> BoolToStr(x.v)
    [] x.t = "str" -> x.v

\* UTF-8 of one code point (below U+0800): one byte below 128, else two.
EncodeCp(cp) ==
  IF cp < 128 THEN <<cp>> ELSE <<192 + (cp \div 64), 128 + (cp % 64)>>

\* The UTF-8 bytes of a text: what store.set sends for a str value.
RECURSIVE EncodeUtf8(_)
EncodeUtf8(cps) ==
  IF cps = <<>> THEN <<>> ELSE EncodeCp(Head(cps)) \o EncodeUtf8(Tail(cps))

\* v.decode('utf-8'), line 389: the code points of well-formed UTF-8 bytes.
RECURSIVE DecodeUtf8(_)
DecodeUtf8(bs) ==
  IF bs = <<>> THEN <<>>
  ELSE IF Head(bs) < 128 THEN <<Head(bs)>> \o DecodeUtf8(Tail(bs))
  ELSE <<(Head(bs) - 192) * 64 + (bs[2] - 128)>> \o DecodeUtf8(Tail(Tail(bs)))

IsDigits(bs) == Len(bs) > 0 /\ \A i \in 1 .. Len(bs) : bs[i] \in 48 .. 57

\* The number a run of ASCII digits spells.
RECURSIVE ParseNat(_)
ParseNat(bs) ==
  IF Len(bs) = 0 THEN 0
  ELSE ParseNat(SubSeq(bs, 1, Len(bs) - 1)) * 10 + (bs[Len(bs)] - 48)

\* int(v) for bytes v: an optional sign and decimal digits, else ValueError.
BytesToInt(bs) ==
  LET neg == Len(bs) > 0 /\ bs[1] = 45
      ds == IF neg THEN Tail(bs) ELSE bs
  IN IF ~IsDigits(ds) THEN PyError
     ELSE PyInt(IF neg THEN -ParseNat(ds) ELSE ParseNat(ds))

\* float(v) for bytes v of the form [-]digits[.digit], else ValueError.
BytesToFloat(bs) ==
  LET neg == Len(bs) > 0 /\ bs[1] = 45
      body == IF neg THEN Tail(bs) ELSE bs
      dots == {i \in 1 .. Len(body) : body[i] = 46}
      dot == IF dots = {} THEN Len(body) + 1 ELSE CHOOSE i \in dots : TRUE
      ip == SubSeq(body, 1, dot - 1)
      fp == SubSeq(body, dot + 1, Len(body))
      ok == /\ Cardinality(dots) <= 1
            /\ IsDigits(ip)
            /\ (dots = {} \/ (Len(fp) = 1 /\ IsDigits(fp)))
      mag == ParseNat(ip) * 10 + (IF Len(fp) = 1 THEN ParseNat(fp) ELSE 0)
  IN IF ~ok THEN PyError ELSE PyFloat(IF neg THEN -mag ELSE mag)

\* bool(v) for bytes v: the truth value of a bytes object is "not empty".
BytesToBool(bs) == PyBool(Len(bs) > 0)

\* type(args.__dict__[k])(v), line 391: the local value's type called on the
\* bytes the store returned.
Construct(ty, bs) ==
  CASE ty = "int" -> BytesToInt(bs)
    [] ty = "float" -> BytesToFloat(bs)
    [] ty = "bool" -> BytesToBool(bs)

\* Mutation: the bytes are assigned as they came from the store.
ReceivedRaw(local, bs) == PyBytes(bs)

\* Lines 388-391: what a non-host process assigns for the bytes v it got,
\* chosen by the type of the local value it replaces.
Received(local, bs) ==
  IF TypeOf(local) = "str" THEN PyStr(DecodeUtf8(bs))
  ELSE Construct(TypeOf(local), bs)

\* Line 384: what store.set(k, str(value)) stores, the UTF-8 of the text.
Sent(x) == EncodeUtf8(Str(x))


\* ------------------------------------------------------ the argument namespace

\* args.__dict__.keys() in the order parse_args adds the arguments (lines
\* 152-302); the model keeps the five distributed-training fields and one or
\* more fields of every type that is synchronised.
Keys ==
  << "host_name", "host_port", "local_rank", "rank", "world_size",
     "batch_size", "ckpt_step", "exp_name", "log_step", "max_norm",
     "n_epoch", "warmup_step", "is_dset_in_memory", "n_worker", "seed" >>

\* dist_args_k, line 377.
dist_args_k == {"host_name", "host_port", "local_rank", "rank", "world_size"}

AllKeys == {Keys[i] : i \in 1 .. Len(Keys)}

SyncedKeys == AllKeys \ dist_args_k

\* The namespace parse_args returns for the launch of process r with the
\* training arguments of profile p; --n_worker is left at its default, 0.
Launch(r, p) ==
  [ host_name |-> PyStr(<<104>>),
    host_port |-> PyInt(30678),
    local_rank |-> PyInt(r),
    rank |-> PyInt(r),
    world_size |-> PyInt(WorldSize),
    batch_size |-> PyInt(p.batch_size),
    ckpt_step |-> PyInt(p.ckpt_step),
    exp_name |-> PyStr(p.exp_name),
    log_step |-> PyInt(p.log_step),
    max_norm |-> PyFloat(p.max_norm),
    n_epoch |-> PyInt(p.n_epoch),
    warmup_step |-> PyInt(p.warmup_step),
    is_dset_in_memory |-> PyBool(p.is_dset_in_memory),
    n_worker |-> PyInt(0),
    seed |-> PyInt(p.seed) ]

\* Command lines whose values differ in every synchronised type: the seeds
\* 42 (the default) and 41, the flag --is_dset_in_memory given or not, an
\* ASCII experiment name and one with a two-byte code point, the norms 1.0
\* and 0.5.
SyncProfiles ==
  { [ batch_size |-> 32, ckpt_step |-> 1000, exp_name |-> <<97>>,
      log_step |-> 200, max_norm |-> 10, n_epoch |-> 10, warmup_step |-> 100,
      is_dset_in_memory |-> FALSE, seed |-> 42 ],
    [ batch_size |-> 16, ckpt_step |-> 500, exp_name |-> <<233, 120>>,
      log_step |-> 100, max_norm |-> 5, n_epoch |-> 3, warmup_step |-> 0,
      is_dset_in_memory |-> TRUE, seed |-> 41 ],
    [ batch_size |-> 32, ckpt_step |-> 1000, exp_name |-> <<97>>,
      log_step |-> 100, max_norm |-> 5, n_epoch |-> 10, warmup_step |-> 100,
      is_dset_in_memory |-> TRUE, seed |-> 42 ] }

\* ------------------------------------------------------------------- state

VARIABLES
  args,       \* args[r]: the namespace of process r
  args0,      \* args0[r]: the namespace parse_args returned (never changed)
  pc,         \* pc[r]: where process r is in main
  ki,         \* ki[r]: index into Keys of the sync loop of process r
  cfgSaved,   \* the ranks that called lmp.util.cfg.save
  storeUp,    \* the host's TCPStore server is listening
  connected,  \* the non-host processes whose TCPStore client is connected
  pgIn,       \* the processes that entered init_process_group
  store,      \* store[k]: the bytes under key k, or None
  writes,     \* the store.set calls made, in order: [rank, key, val]
  reads,      \* the store.get calls that returned: [rank, key, val]
  seedSet,    \* seedSet[r]: the seed process r gave set_seed, or None
  dsetLen,    \* dsetLen[r]: len(dset) of process r (0 before the load)
  epoch,      \* epoch[r]: the epoch of the loop at line 474
  bi,         \* bi[r]: the batches process r has taken from data_loader this epoch
  step,       \* step[r]: the global optimization step of process r
  avg_loss,   \* avg_loss[r]: the losses accumulated since the last log
  pre_avg_loss, \* pre_avg_loss[r]: the last average logged, [num, den]
  grad,       \* grad[r]: the gradient held by the parameters of process r
  posted,     \* posted[r]: the contribution of r to the collective it is in, or None
  result,     \* result[r]: the outcome of the collective, not yet taken by r, or None
  writers,    \* the ranks that created a tensorboard writer
  closed,     \* the ranks that closed their tensorboard writer
  ckpts,      \* the lmp.util.model.save calls, in order: [rank, ckpt, at]
  scalars,    \* the writer.add_scalar calls, in order: [rank, tag, step, val]
  losses,     \* losses[r]: what loss.item() returned on process r, in order
  params,     \* params[r]: the parameters of the model of process r, or None
  dsets,      \* the values len(dset) can take: the datasets the nodes hold
  sGen,       \* the orders the generator of a sampler can shuffle into
  sEpoch,     \* sEpoch[r]: dist_sampler.epoch of process r
  sPerm,      \* sPerm[r]: the shuffled indices the iteration of this epoch
              \* of process r draws from (empty before its first batch)
  sDrawn,     \* sDrawn[r]: the indices dist_sampler of process r has
              \* yielded since the last set_epoch
  tknzr,      \* tokenizer model: the tokenizer, [cls, is_uncased, tk2id, ...]
  tkGiven,    \* tokenizer model: what the caller holds, "txt", "ids" or "none"
  tkTxt,      \* tokenizer model: the text given to enc
  tkIds,      \* tokenizer model: the token ids at hand
  tkPrev,     \* tokenizer model: the token ids the last pad or truncation was given
  tkLen,      \* tokenizer model: the max_seq_len of the last pad or truncation
  tkOut,      \* tokenizer model: the text dec returned
  tkOps,      \* tokenizer model: the methods called so far, in order
  tkTks,      \* tokenizer model: the tokens the last tokenization returned
  corpus,     \* vocabulary model: the tokens of the training corpus, in order
  lstmArgs,   \* LSTM-2002 model: the arguments given to the constructor
  lstm        \* LSTM-2002 model: the attributes of the constructed model, or None

setupVars ==
  << args, args0, ki, cfgSaved, storeUp, connected, pgIn, store, writes, reads,
     seedSet >>

trainVars ==
  << dsetLen, epoch, bi, step, avg_loss, pre_avg_loss, grad, posted, result,
     writers, closed, ckpts, scalars, losses, params >>

samplerVars == << dsets, sGen, sEpoch, sPerm, sDrawn >>

tknzrVars ==
  << tknzr, tkGiven, tkTxt, tkIds, tkPrev, tkLen, tkOut, tkOps, tkTks >>

lstmVars == << lstmArgs, lstm >>

vocabVars == << corpus >>

vars == << pc, setupVars, trainVars, samplerVars, tknzrVars, lstmVars, vocabVars >>

\* args.rank of process r.
ArgRank(r) == args[r].rank.v

\* Mutation: the rank is not looked at.
IsHostAlways(r) == TRUE

\* args.rank == HOST_RANK, lines 355, 360, 383, 463, 516, 527 and 536.
IsHost(r) == ArgRank(r) = HOST_RANK

\* ------------------------------------------------------- lines 325 to 352

\* len(os.sched_getaffinity(0)), line 337: the CPUs the process may run on.
Cpus == 2

\* lmp.util.validate.raise_if_wrong_ordered(vals=...): the values are wrongly
\* ordered when one of them is larger than the one after it.
WrongOrdered(vals) == \E i \in 1 .. (Len(vals) - 1) : vals[i] > vals[i + 1]

\* Mutation: the rank is checked against world_size, not world_size - 1.
ChecksRankUpToWorldSize(a) ==
  << <<1, a.batch_size.v>>,
     <<1, a.ckpt_step.v>>,
     <<1, a.log_step.v>>,
     <<0, a.max_norm.v>>,
     <<1, a.n_epoch.v>>,
     <<0, a.n_worker.v, Cpus>>,
     <<a.n_worker.v, a.batch_size.v>>,
     <<0, a.world_size.v>>,
     <<0, a.local_rank.v>>,
     <<0, a.rank.v, a.world_size.v>> >>

\* Lines 325-352: the vals of the raise_if_wrong_ordered calls main makes on
\* the namespace a, in order.
ValidationChecks(a) ==
  << <<1, a.batch_size.v>>,
     <<1, a.ckpt_step.v>>,
     <<1, a.log_step.v>>,
     <<0, a.max_norm.v>>,
     <<1, a.n_epoch.v>>,
     <<0, a.n_worker.v, Cpus>>,
     <<a.n_worker.v, a.batch_size.v>>,
     <<0, a.world_size.v>>,
     <<0, a.local_rank.v>>,
     <<0, a.rank.v, a.world_size.v - 1>> >>

\* Some check of lines 325-352 raises on the namespace a.
Rejects(a) ==
  \E i \in 1 .. Len(ValidationChecks(a)) : WrongOrdered(ValidationChecks(a)[i])

\* Mutation: the checks are not made before the statements that follow.
ValidateLate(r) ==
  /\ pc[r] = "validate"
  /\ pc' = [pc EXCEPT ![r] = "save_cfg"]
  /\ UNCHANGED <<args, args0, ki, cfgSaved, storeUp, connected, pgIn, store, writes, reads, seedSet>>
  /\ UNCHANGED <<trainVars, samplerVars, tknzrVars, lstmVars, vocabVars>>

\* Lines 325-352: the first statements of main after parse_args.  A check
\* that raises ends main; otherwise main goes on to line 355.
Validate(r) ==
  /\ pc[r] = "validate"
  /\ pc' = [pc EXCEPT ![r] = IF Rejects(args[r]) THEN "rejected" ELSE "save_cfg"]
  /\ UNCHANGED <<args, args0, ki, cfgSaved, storeUp, connected, pgIn, store, writes, reads, seedSet>>
  /\ UNCHANGED <<trainVars, samplerVars, tknzrVars, lstmVars, vocabVars>>

\* ------------------------------------------------------- lines 354 to 374

\* Lines 355-356: only the host saves the training configuration.
SaveCfg(r) ==
  /\ pc[r] = "save_cfg"
  /\ cfgSaved' = IF IsHost(r) THEN cfgSaved \cup {ArgRank(r)} ELSE cfgSaved
  /\ pc' = [pc EXCEPT ![r] = "tcp_store"]
  /\ UNCHANGED <<args, args0, ki, storeUp, connected, pgIn, store, writes, reads, seedSet>>
  /\ UNCHANGED <<trainVars, samplerVars, tknzrVars, lstmVars, vocabVars>>

\* Lines 359-365 on the host (is_master): the server starts listening; the
\* constructor then waits for the world_size - 1 clients.
TcpStoreListen(r) ==
  /\ pc[r] = "tcp_store"
  /\ IsHost(r)
  /\ storeUp' = TRUE
  /\ pc' = [pc EXCEPT ![r] = "tcp_wait"]
  /\ UNCHANGED <<args, args0, ki, cfgSaved, connected, pgIn, store, writes, reads, seedSet>>
  /\ UNCHANGED <<trainVars, samplerVars, tknzrVars, lstmVars, vocabVars>>

\* Lines 359-365 on the host: every client has connected, the constructor
\* returns.
TcpStoreReady(r) ==
  /\ pc[r] = "tcp_wait"
  /\ connected = {q \in Ranks : q # HOST_RANK}
  /\ pc' = [pc EXCEPT ![r] = "init_pg"]
  /\ UNCHANGED <<args, args0, ki, cfgSaved, storeUp, connected, pgIn, store, writes, reads, seedSet>>
  /\ UNCHANGED <<trainVars, samplerVars, tknzrVars, lstmVars, vocabVars>>

\* Lines 359-365 on a non-host process: the client connects to the
\* listening server.
TcpStoreConnect(r) ==
  /\ pc[r] = "tcp_store"
  /\ ~IsHost(r)
  /\ storeUp
  /\ connected' = connected \cup {r}
  /\ pc' = [pc EXCEPT ![r] = "init_pg"]
  /\ UNCHANGED <<args, args0, ki, cfgSaved, storeUp, pgIn, store, writes, reads, seedSet>>
  /\ UNCHANGED <<trainVars, samplerVars, tknzrVars, lstmVars, vocabVars>>

\* Lines 368-374: the process enters init_process_group, which waits on the
\* store until world_size processes have entered.
InitPgEnter(r) ==
  /\ pc[r] = "init_pg"
  /\ pgIn' = pgIn \cup {r}
  /\ pc' = [pc EXCEPT ![r] = "pg_wait"]
  /\ UNCHANGED <<args, args0, ki, cfgSaved, storeUp, connected, store, writes, reads, seedSet>>
  /\ UNCHANGED <<trainVars, samplerVars, tknzrVars, lstmVars, vocabVars>>

\* Lines 368-374: all world_size processes have entered, the call returns.
InitPgReturn(r) ==
  /\ pc[r] = "pg_wait"
  /\ pgIn = Ranks
  /\ pc' = [pc EXCEPT ![r] = "sync"]
  /\ UNCHANGED <<args, args0, ki, cfgSaved, storeUp, connected, pgIn, store, writes, reads, seedSet>>
  /\ UNCHANGED <<trainVars, samplerVars, tknzrVars, lstmVars, vocabVars>>

\* A process is blocked on the store or on the rendezvous.
BlockedOnRendezvous(r) ==
  \/ pc[r] = "tcp_store" /\ ~IsHost(r) /\ ~storeUp
  \/ pc[r] = "tcp_wait" /\ connected # {q \in Ranks : q # HOST_RANK}
  \/ pc[r] = "pg_wait" /\ pgIn # Ranks

\* Mutation: a wait that ran out of time is started again from the store's
\* construction.
RendezvousRetry(r) ==
  /\ BlockedOnRendezvous(r)
  /\ pc' = [pc EXCEPT ![r] = "tcp_store"]
  /\ UNCHANGED <<args, args0, ki, cfgSaved, storeUp, connected, pgIn, store, writes, reads, seedSet>>
  /\ UNCHANGED <<trainVars, samplerVars, tknzrVars, lstmVars, vocabVars>>

\* timeout=timedelta(minutes=5), lines 363 and 372: a wait that lasts five
\* minutes raises; nothing in main catches the exception, which ends main.
RendezvousTimeout(r) ==
  /\ BlockedOnRendezvous(r)
  /\ pc' = [pc EXCEPT ![r] = "rdv_failed"]
  /\ UNCHANGED <<args, args0, ki, cfgSaved, storeUp, connected, pgIn, store, writes, reads, seedSet>>
  /\ UNCHANGED <<trainVars, samplerVars, tknzrVars, lstmVars, vocabVars>>

\* ------------------------------------------------------- lines 376 to 394

\* Mutation: the loop passes over no key.
SkippedNone(k) == FALSE

\* Lines 379-380: the loop passes over (continue) the distributed-training
\* fields.
Skipped(k) == k \in dist_args_k

\* Lines 378-380: the index of the first key after position i that the loop
\* does not pass over; Len(Keys) + 1 when there is none.
RECURSIVE NextIdx(_)
NextIdx(i) ==
  IF i + 1 > Len(Keys) THEN Len(Keys) + 1
  ELSE IF Skipped(Keys[i + 1]) THEN NextIdx(i + 1)
  ELSE i + 1

\* The key the sync loop of process r is at.
CurKey(r) == Keys[ki[r]]

\* The loop moves to the next key it does not pass over, or ends.
Advance(r) ==
  IF NextIdx(ki[r]) <= Len(Keys)
  THEN /\ ki' = [ki EXCEPT ![r] = NextIdx(ki[r])]
       /\ pc' = pc
  ELSE /\ ki' = ki
       /\ pc' = [pc EXCEPT ![r] = "set_seed"]

\* Mutation: a get that does not wait for the key.
KeyReadyAlways(k) == TRUE

\* store.get(k), line 387, returns once the key is set.
KeyReady(k) == store[k] # None

\* Lines 383-384: the host stores the text of its value under the key.
SyncSet(r) ==
  /\ pc[r] = "sync"
  /\ IsHost(r)
  /\ LET k == CurKey(r)
         bs == PyBytes(Sent(args[r][k]))
     IN /\ store' = [store EXCEPT ![k] = bs]
        /\ writes' = Append(writes, [rank |-> ArgRank(r), key |-> k, val |-> bs])
  /\ Advance(r)
  /\ UNCHANGED <<args, args0, cfgSaved, storeUp, connected, pgIn, reads, seedSet>>
  /\ UNCHANGED <<trainVars, samplerVars, tknzrVars, lstmVars, vocabVars>>

\* Lines 386-391: a non-host process gets the key's bytes (store.get blocks
\* until the key is set) and replaces its local value by the value of the
\* local value's type.  A constructor that raises ends main.
SyncGet(r) ==
  /\ pc[r] = "sync"
  /\ ~IsHost(r)
  /\ KeyReady(CurKey(r))
  /\ LET k == CurKey(r)
         v == store[k]
         new == Received(args[r][k], v.v)
     IN /\ reads' = reads \cup {[rank |-> ArgRank(r), key |-> k, val |-> v]}
        /\ IF new = PyError
           THEN /\ pc' = [pc EXCEPT ![r] = "aborted"]
                /\ UNCHANGED <<args, ki>>
           ELSE /\ args' = [args EXCEPT ![r][k] = new]
                /\ Advance(r)
  /\ UNCHANGED <<args0, cfgSaved, storeUp, connected, pgIn, store, writes, seedSet>>
  /\ UNCHANGED <<trainVars, samplerVars, tknzrVars, lstmVars, vocabVars>>

\* Line 387 with timeout=timedelta(minutes=5): a store.get that waited five
\* minutes for a key that is still not set raises, which ends main.
GetTimeout(r) ==
  /\ pc[r] = "sync"
  /\ ~IsHost(r)
  /\ ~KeyReady(CurKey(r))
  /\ pc' = [pc EXCEPT ![r] = "aborted"]
  /\ UNCHANGED <<args, args0, ki, cfgSaved, storeUp, connected, pgIn, store, writes, reads, seedSet>>
  /\ UNCHANGED <<trainVars, samplerVars, tknzrVars, lstmVars, vocabVars>>

\* Mutation: the seed is taken from the command line, not from the synced
\* namespace.
SeedOfLocal(r) == args0[r].seed.v + args0[r].rank.v

\* Line 394: lmp.util.rand.set_seed(seed=args.seed + args.rank).
SeedOf(r) == args[r].seed.v + args[r].rank.v

SetSeed(r) ==
  /\ pc[r] = "set_seed"
  /\ seedSet' = [seedSet EXCEPT ![r] = PyInt(SeedOf(r))]
  /\ pc' = [pc EXCEPT ![r] = "load"]
  /\ UNCHANGED <<args, args0, ki, cfgSaved, storeUp, connected, pgIn, store, writes, reads>>
  /\ UNCHANGED <<trainVars, samplerVars, tknzrVars, lstmVars, vocabVars>>

\* The steps of main from the validation to the seeding.
SetupStep(r) ==
  \/ Validate(r)
  \/ SaveCfg(r)
  \/ TcpStoreListen(r)
  \/ TcpStoreReady(r)
  \/ TcpStoreConnect(r)
  \/ InitPgEnter(r)
  \/ InitPgReturn(r)
  \/ RendezvousTimeout(r)
  \/ SyncSet(r)
  \/ SyncGet(r)
  \/ GetTimeout(r)
  \/ SetSeed(r)

\* ------------------------------------------------------- lines 396 to 435

CeilDiv(a, b) == (a + b - 1) \div b

\* min(a, b).
Min(a, b) == IF a < b THEN a ELSE b

\* The greatest common divisor of a >= 0 and b >= 0.
RECURSIVE Gcd(_, _)
Gcd(a, b) == IF b = 0 THEN a ELSE Gcd(b, a % b)

\* A sequence repeated k times.
RECURSIVE Repeat(_, _)
Repeat(sq, k) == IF k = 0 THEN <<>> ELSE sq \o Repeat(sq, k - 1)

\* The orders in which a shuffle can put the indices 0 .. n-1.
Shuffles(n) ==
  {p \in [1 .. n -> 0 .. (n - 1)] : \A i, j \in 1 .. n : i # j => p[i] # p[j]}

\* DistributedSampler(num_replicas=w, dataset of n samples), lines 419-424,
\* with its default drop_last=False: num_samples = ceil(n / w).
NumSamples(n, w) == CeilDiv(n, w)

\* DistributedSampler.total_size = num_samples * num_replicas.
TotalSize(n, w) == NumSamples(n, w) * w

\* DistributedSampler.__iter__ without drop_last: the shuffled indices are
\* padded to total_size with indices from their own beginning.
Padded(perm, w) ==
  LET n == Len(perm)
      padding == TotalSize(n, w) - n
  IN IF padding <= n
     THEN perm \o SubSeq(perm, 1, padding)
     ELSE perm \o SubSeq(Repeat(perm, CeilDiv(padding, n)), 1, padding)

\* DistributedSampler.__iter__: indices[rank:total_size:num_replicas], the
\* indices the sampler of rank r yields in an epoch whose shuffle is perm.
RankIndices(perm, r, w) ==
  [i \in 1 .. NumSamples(Len(perm), w) |-> Padded(perm, w)[r + (i - 1) * w + 1]]

\* batch_size=args.batch_size // args.world_size, line 429.
LocalBatchSize(r) == args[r].batch_size.v \div args[r].world_size.v

\* len(data_loader): the sampler's num_samples in batches of the local batch
\* size, the last one possibly smaller (DataLoader's default drop_last=False).
LoaderLen(r) ==
  CeilDiv(NumSamples(dsetLen[r], args[r].world_size.v), LocalBatchSize(r))

\* ------------------------------------------------------------ collectives
\* A collective of the process group completes when every process of the
\* group has contributed to it; every process then holds the same outcome.

Coll(kind, v) == [t |-> "coll", kind |-> kind, v |-> v]

RECURSIVE SumPosted(_)
SumPosted(n) == IF n < 0 THEN 0 ELSE posted[n].v + SumPosted(n - 1)

\* The process group's all-reduce (sum) over the contributions posted.
AllReduce ==
  /\ \A r \in Ranks : posted[r] # None
  /\ \A r, q \in Ranks : posted[r].kind = posted[q].kind
  /\ result' = [r \in Ranks |-> Coll(posted[r].kind, SumPosted(WorldSize - 1))]
  /\ posted' = [r \in Ranks |-> None]
  /\ UNCHANGED <<pc, setupVars, samplerVars, tknzrVars, lstmVars, vocabVars>>
  /\ UNCHANGED <<dsetLen, epoch, bi, step, avg_loss, pre_avg_loss, grad, writers, closed, ckpts, scalars, losses, params>>

\* Process r contributes c to the next collective and blocks in it.
Post(r, c) == posted' = [posted EXCEPT ![r] = c]

\* The collective process r is blocked in has completed with kind `kind`.
Completed(r, kind) == result[r] # None /\ result[r].kind = kind

Take(r) == result' = [result EXCEPT ![r] = None]

\* ------------------------------------------------------- lines 396 to 473

\* Sizes of the dataset copy a process may load: the smallest and the largest.
DsetLens == {1, MaxDsetLen}

\* Lines 397-416: the device, the tokenizer and the process's own copy of
\* the dataset are loaded.
LoadDset(r) ==
  /\ pc[r] = "load"
  /\ \E n \in dsets : dsetLen' = [dsetLen EXCEPT ![r] = n]
  /\ pc' = [pc EXCEPT ![r] = "setup"]
  /\ UNCHANGED <<setupVars, samplerVars, tknzrVars, lstmVars, vocabVars>>
  /\ UNCHANGED <<epoch, bi, step, avg_loss, pre_avg_loss, grad, posted, result, writers, closed, ckpts, scalars, losses, params>>

\* Line 438: the new model of process r; its initial weights are drawn from
\* the random generator the process seeded at line 394, and no update has
\* been applied to them.
NewModel(r) == [init |-> seedSet[r].v, updates |-> <<>>]

\* What process r contributes to a broadcast of v from rank 0, told as a
\* sum: rank 0 contributes v, the others nothing.
Broadcast(r, v) == IF ArgRank(r) = 0 THEN v ELSE 0

\* Line 455: total_step, the length of the learning rate schedule; line 456
\* gives the schedule its warm-up, args.warmup_step.
TotalStep(r) == args[r].n_epoch.v * LoaderLen(r)

\* Mutation: the model is not wrapped, every process keeps its own weights.
DdpKeepsLocal(r) == params[r]

\* Line 460: the DistributedDataParallel constructor gives every process the
\* parameters of rank 0, the outcome of the broadcast.
DdpParams(r) == [init |-> result[r].v, updates |-> <<>>]

\* Lines 419-460: sampler (a new DistributedSampler is at epoch 0), data
\* loader (which raises for a batch size below one), model, optimizer and
\* scheduler are created; wrapping the model in DistributedDataParallel is
\* a collective of the whole group.
Setup(r) ==
  /\ pc[r] = "setup"
  /\ IF LocalBatchSize(r) < 1
     THEN /\ pc' = [pc EXCEPT ![r] = "aborted"]
          /\ UNCHANGED <<posted, params>>
     ELSE /\ pc' = [pc EXCEPT ![r] = "ddp_init"]
          /\ params' = [params EXCEPT ![r] = NewModel(r)]
          /\ Post(r, Coll("ddp_init", Broadcast(r, NewModel(r).init)))
  /\ sEpoch' = [sEpoch EXCEPT ![r] = 0]
  /\ UNCHANGED <<dsets, sGen, sPerm, sDrawn>>
  /\ UNCHANGED <<setupVars, tknzrVars, lstmVars, vocabVars>>
  /\ UNCHANGED <<dsetLen, epoch, bi, step, avg_loss, pre_avg_loss, grad, result, writers, closed, ckpts, scalars, losses>>

\* Lines 460-473: the DDP wrapper is built; only the host creates the
\* tensorboard writer; the log targets and the global step start at zero.
DdpReady(r) ==
  /\ pc[r] = "ddp_init"
  /\ Completed(r, "ddp_init")
  /\ Take(r)
  /\ writers' = IF IsHost(r) THEN writers \cup {ArgRank(r)} ELSE writers
  /\ pre_avg_loss' = [pre_avg_loss EXCEPT ![r] = [num |-> 0, den |-> 1]]
  /\ avg_loss' = [avg_loss EXCEPT ![r] = 0]
  /\ step' = [step EXCEPT ![r] = 0]
  /\ epoch' = [epoch EXCEPT ![r] = 0]
  /\ params' = [params EXCEPT ![r] = DdpParams(r)]
  /\ pc' = [pc EXCEPT ![r] = "epoch"]
  /\ UNCHANGED <<setupVars, samplerVars, tknzrVars, lstmVars, vocabVars>>
  /\ UNCHANGED <<dsetLen, bi, grad, posted, closed, ckpts, scalars, losses>>

\* ------------------------------------------------------- lines 474 to 540

\* loss.item() of the forward pass on batch b of epoch e on rank r, line
\* 491: the dataset, which the model fixes, gives the losses 1 and 2 in
\* turn, out of step between neighbouring ranks.  The gradient of the batch
\* is taken to be the same number.
LossOf(r, e, b) == 1 + ((r + e + b) % 2)

\* Lines 474-480: the next epoch starts (dist_sampler.set_epoch(epoch), the
\* join context is entered, a new iteration of the data loader is about to
\* begin), or the range is exhausted and the loop ends.
EpochStart(r) ==
  /\ pc[r] = "epoch"
  /\ IF epoch[r] < args[r].n_epoch.v
     THEN /\ sEpoch' = [sEpoch EXCEPT ![r] = epoch[r]]
          /\ sPerm' = [sPerm EXCEPT ![r] = <<>>]
          /\ sDrawn' = [sDrawn EXCEPT ![r] = <<>>]
          /\ bi' = [bi EXCEPT ![r] = 0]
          /\ pc' = [pc EXCEPT ![r] = "fetch"]
     ELSE /\ bi' = bi
          /\ pc' = [pc EXCEPT ![r] = "last"]
          /\ UNCHANGED <<sEpoch, sPerm, sDrawn>>
  /\ UNCHANGED <<dsets, sGen>>
  /\ UNCHANGED <<setupVars, tknzrVars, lstmVars, vocabVars>>
  /\ UNCHANGED <<dsetLen, epoch, step, avg_loss, pre_avg_loss, grad, posted, result, writers, closed, ckpts, scalars, losses, params>>

\* torch.randperm(n, generator=g) of DistributedSampler.__iter__, for the
\* order `order` the generator gives the indices: the indices below n in
\* that order.
randperm(order, n) ==
  LET below(i) == i < n IN SelectSeq(order, below)

\* DistributedSampler.__iter__ with shuffle=True, line 481: the generator is
\* seeded with the sampler's seed (the default on every process) plus its
\* epoch, so the permutation is the one every other sampler of that epoch
\* over a dataset of that size iterates over; the iteration under way goes
\* on with the permutation it began with.
EpochPerms(r) ==
  IF sPerm[r] # <<>> THEN {sPerm[r]}
  ELSE { p \in {randperm(o, dsetLen[r]) : o \in sGen} :
           \A q \in Ranks \ {r} :
             (sPerm[q] # <<>> /\ sEpoch[q] = sEpoch[r] /\ dsetLen[q] = dsetLen[r])
               => sPerm[q] = p }

\* The indices of the next batch of process r: the data loader draws the
\* indices of its sampler, of the permutation perm, in order, batch_size at
\* a time, the last batch taking what is left.
BatchIndices(r, perm) ==
  LET idx == RankIndices(perm, ArgRank(r), args[r].world_size.v)
      k == Len(sDrawn[r])
  IN SubSeq(idx, k + 1, Min(k + LocalBatchSize(r), Len(idx)))

\* Lines 481-491: the data loader yields a batch, of the indices it draws
\* from the sampler; the forward pass of the DDP model first tells the join
\* context, by an all-reduce of a one, that this process has not joined.
NextBatch(r) ==
  /\ pc[r] = "fetch"
  /\ bi[r] < LoaderLen(r)
  /\ \E p \in EpochPerms(r) :
       /\ sPerm' = [sPerm EXCEPT ![r] = p]
       /\ sDrawn' = [sDrawn EXCEPT ![r] = @ \o BatchIndices(r, p)]
  /\ Post(r, Coll("join", 1))
  /\ pc' = [pc EXCEPT ![r] = "forward"]
  /\ UNCHANGED <<dsets, sGen, sEpoch>>
  /\ UNCHANGED <<setupVars, tknzrVars, lstmVars, vocabVars>>
  /\ UNCHANGED <<dsetLen, epoch, bi, step, avg_loss, pre_avg_loss, grad, result, writers, closed, ckpts, scalars, losses, params>>

\* Lines 491-497: the loss is computed and accumulated; loss.backward()
\* computes the local gradient and DDP all-reduces it.
Forward(r) ==
  /\ pc[r] = "forward"
  /\ Completed(r, "join")
  /\ Take(r)
  /\ LET loss == LossOf(r, epoch[r], bi[r])
     IN /\ avg_loss' = [avg_loss EXCEPT ![r] = avg_loss[r] + loss]
        /\ losses' = [losses EXCEPT ![r] = Append(@, loss)]
        /\ grad' = [grad EXCEPT ![r] = [st |-> "local", v |-> loss]]
        /\ Post(r, Coll("grad", loss))
  /\ pc' = [pc EXCEPT ![r] = "backward"]
  /\ UNCHANGED <<setupVars, samplerVars, tknzrVars, lstmVars, vocabVars>>
  /\ UNCHANGED <<dsetLen, epoch, bi, step, pre_avg_loss, writers, closed, ckpts, scalars, params>>

\* Mutation: the model is not wrapped, the local gradient stays.
LocalGrad(r) == grad[r]

\* Lines 460 and 497: the gradient the DDP wrapper leaves in the parameters
\* of process r, the outcome of the all-reduce.
AveragedGrad(r) == [st |-> "averaged", v |-> result[r].v]

\* Line 497: loss.backward() returns once the all-reduce of the gradient has
\* completed; the parameters hold the sum over the ranks divided by the
\* world size (v keeps the sum).
BackwardDone(r) ==
  /\ pc[r] = "backward"
  /\ Completed(r, "grad")
  /\ grad' = [grad EXCEPT ![r] = AveragedGrad(r)]
  /\ Take(r)
  /\ pc' = [pc EXCEPT ![r] = "clip"]
  /\ UNCHANGED <<setupVars, samplerVars, tknzrVars, lstmVars, vocabVars>>
  /\ UNCHANGED <<dsetLen, epoch, bi, step, avg_loss, pre_avg_loss, posted, writers, closed, ckpts, scalars, losses, params>>

\* Line 500: the gradient clip_grad_norm_ leaves in the parameters: the
\* average, scaled down to max_norm when it is larger.  The averaged
\* gradient holds in v the sum over the ranks, max_norm is in tenths; the
\* clipped gradient holds v in units of 1 / (10 * world_size).
ClippedGrad(r) ==
  [ st |-> "clipped",
    v |-> Min(10 * grad[r].v, args[r].max_norm.v * args[r].world_size.v) ]

\* Line 500: clip_grad_norm_ rescales in place the gradient the parameters
\* hold.
Clip(r) ==
  /\ pc[r] = "clip"
  /\ grad' = [grad EXCEPT ![r] = ClippedGrad(r)]
  /\ pc' = [pc EXCEPT ![r] = "optim"]
  /\ UNCHANGED <<setupVars, samplerVars, tknzrVars, lstmVars, vocabVars>>
  /\ UNCHANGED <<dsetLen, epoch, bi, step, avg_loss, pre_avg_loss, posted, result, writers, closed, ckpts, scalars, losses, params>>

\* Mutation: the host saves a checkpoint at every step.
SavesCkptAlways(r, s) == ArgRank(r) = HOST_RANK

\* Lines 516-517: does the step s save a checkpoint.
SavesCkpt(r, s) ==
  IsHost(r) /\ s % args[r].ckpt_step.v = 0

\* Line 520: does the step s log.
Logs(r, s) == s % args[r].log_step.v = 0

\* Lines 527-529: the scalars the host writes at the logging step s.
ScalarsOf(r, s, avg) ==
  IF IsHost(r)
  THEN << [rank |-> ArgRank(r), tag |-> "train-loss", step |-> s, val |-> avg],
          [rank |-> ArgRank(r), tag |-> "lr", step |-> s, val |-> None] >>
  ELSE << >>

\* max(a, b).
Max(a, b) == IF a > b THEN a ELSE b

\* The learning rate factor of the schedule of length t with a warm-up of w
\* steps, at its step k, as a reduced fraction: it rises linearly from
\* zero over the warm-up, k / max(1, w), then decays linearly to zero,
\* max(0, t - k) / max(1, t - w).
LrAt(k, t, w) ==
  LET Frac(n, d) == LET g == Gcd(n, d) IN << n \div g, d \div g >>
  IN IF k < w THEN Frac(k, Max(1, w))
     ELSE Frac(Max(0, t - k), Max(1, t - w))

\* Lines 503-506: the update optim.step() applies to the parameters; it is
\* told by the gradient the parameters hold, the learning rate and the
\* number of updates the optimizer of process r has made before.
Update(r) ==
  [ grad |-> grad[r].v,
    lr |-> LrAt(step[r], TotalStep(r), args[r].warmup_step.v),
    k |-> step[r] ]

\* Mutation: the global step counts the batches of the epoch.
NextStepOfEpoch(r) == bi[r] + 1

\* Line 512: step += 1.
NextStep(r) == step[r] + 1

\* Mutation: the accumulated loss is logged without the division.
LoggedSum(r) == [num |-> avg_loss[r], den |-> 1]

\* Line 521: avg_loss = avg_loss / args.log_step.
LoggedAvg(r) == [num |-> avg_loss[r], den |-> args[r].log_step.v]

\* Lines 503-533: optim.step() applies the gradient, the scheduler steps,
\* the gradient is zeroed, the global step is incremented; then the
\* checkpoint and the log of that step; the loop body ends.
OptimStep(r) ==
  /\ pc[r] = "optim"
  /\ grad' = [grad EXCEPT ![r] = [st |-> "zero", v |-> 0]]
  /\ params' = [params EXCEPT ![r].updates = Append(@, Update(r))]
  /\ LET s == NextStep(r)
     IN /\ step' = [step EXCEPT ![r] = s]
        /\ ckpts' = IF SavesCkpt(r, s)
                    THEN Append(ckpts, [rank |-> ArgRank(r), ckpt |-> s, at |-> "loop"])
                    ELSE ckpts
        /\ IF Logs(r, s)
           THEN LET avg == LoggedAvg(r)
                IN /\ scalars' = scalars \o ScalarsOf(r, s, avg)
                   /\ pre_avg_loss' = [pre_avg_loss EXCEPT ![r] = avg]
                   /\ avg_loss' = [avg_loss EXCEPT ![r] = 0]
           ELSE UNCHANGED <<scalars, pre_avg_loss, avg_loss>>
  /\ bi' = [bi EXCEPT ![r] = bi[r] + 1]
  /\ pc' = [pc EXCEPT ![r] = "fetch"]
  /\ UNCHANGED <<setupVars, samplerVars, tknzrVars, lstmVars, vocabVars>>
  /\ UNCHANGED <<dsetLen, epoch, posted, result, writers, closed, losses>>

\* Mutation: the loop runs outside a join context; a process whose data
\* loader is exhausted goes on to its next epoch.
LoopEndNoJoin(r) ==
  /\ pc[r] = "fetch"
  /\ bi[r] >= LoaderLen(r)
  /\ epoch' = [epoch EXCEPT ![r] = epoch[r] + 1]
  /\ pc' = [pc EXCEPT ![r] = "epoch"]
  /\ UNCHANGED <<setupVars, samplerVars, tknzrVars, lstmVars, vocabVars>>
  /\ UNCHANGED <<dsetLen, bi, step, avg_loss, pre_avg_loss, grad, posted, result, writers, closed, ckpts, scalars, losses, params>>

\* Line 479, leaving the join context: the data loader is exhausted; the
\* process joins and asks, by an all-reduce of a zero, how many processes
\* have not joined.
LoopEnd(r) ==
  /\ pc[r] = "fetch"
  /\ bi[r] >= LoaderLen(r)
  /\ Post(r, Coll("join", 0))
  /\ pc' = [pc EXCEPT ![r] = "joined"]
  /\ UNCHANGED <<setupVars, samplerVars, tknzrVars, lstmVars, vocabVars>>
  /\ UNCHANGED <<dsetLen, epoch, bi, step, avg_loss, pre_avg_loss, grad, result, writers, closed, ckpts, scalars, losses, params>>

\* Line 479, the join context of a joined process while some process has
\* not joined: it shadows that process's gradient all-reduce with zeros.
JoinShadow(r) ==
  /\ pc[r] = "joined"
  /\ Completed(r, "join")
  /\ result[r].v > 0
  /\ Take(r)
  /\ Post(r, Coll("grad", 0))
  /\ pc' = [pc EXCEPT ![r] = "shadow"]
  /\ UNCHANGED <<setupVars, samplerVars, tknzrVars, lstmVars, vocabVars>>
  /\ UNCHANGED <<dsetLen, epoch, bi, step, avg_loss, pre_avg_loss, grad, writers, closed, ckpts, scalars, losses, params>>

\* Line 479: the shadowed all-reduce has completed; the joined process asks
\* again how many processes have not joined.
ShadowDone(r) ==
  /\ pc[r] = "shadow"
  /\ Completed(r, "grad")
  /\ Take(r)
  /\ Post(r, Coll("join", 0))
  /\ pc' = [pc EXCEPT ![r] = "joined"]
  /\ UNCHANGED <<setupVars, samplerVars, tknzrVars, lstmVars, vocabVars>>
  /\ UNCHANGED <<dsetLen, epoch, bi, step, avg_loss, pre_avg_loss, grad, writers, closed, ckpts, scalars, losses, params>>

\* Line 479: every process has joined; the join context's last collective
\* makes the final model the same on all of them.
JoinAll(r) ==
  /\ pc[r] = "joined"
  /\ Completed(r, "join")
  /\ result[r].v = 0
  /\ Take(r)
  /\ Post(r, Coll("final", 0))
  /\ pc' = [pc EXCEPT ![r] = "join_exit"]
  /\ UNCHANGED <<setupVars, samplerVars, tknzrVars, lstmVars, vocabVars>>
  /\ UNCHANGED <<dsetLen, epoch, bi, step, avg_loss, pre_avg_loss, grad, writers, closed, ckpts, scalars, losses, params>>

\* Line 479: the process whose model the join context hands to all when it
\* is left: the one of the largest rank among those that joined last, which
\* are those whose data loader is the longest.
Authority ==
  CHOOSE q \in Ranks :
    /\ \A o \in Ranks : LoaderLen(o) <= LoaderLen(q)
    /\ \A o \in Ranks : LoaderLen(o) = LoaderLen(q) => ArgRank(o) <= ArgRank(q)

\* Lines 474 and 479: the join context is left with the parameters of the
\* authority, the epoch is over.
JoinExit(r) ==
  /\ pc[r] = "join_exit"
  /\ Completed(r, "final")
  /\ Take(r)
  /\ params' = [params EXCEPT ![r] = params[Authority]]
  /\ epoch' = [epoch EXCEPT ![r] = epoch[r] + 1]
  /\ pc' = [pc EXCEPT ![r] = "epoch"]
  /\ UNCHANGED <<setupVars, samplerVars, tknzrVars, lstmVars, vocabVars>>
  /\ UNCHANGED <<dsetLen, bi, step, avg_loss, pre_avg_loss, grad, posted, writers, closed, ckpts, scalars, losses>>

\* Mutation: the last checkpoint is tagged with the number of epochs.
LastCkptOfEpoch(r) == epoch[r]

\* Line 537, ckpt=step: the tag of the last checkpoint.
LastCkpt(r) == step[r]

\* Lines 535-540: the host saves the last checkpoint and closes the writer.
Last(r) ==
  /\ pc[r] = "last"
  /\ IF IsHost(r)
     THEN /\ ckpts' = Append(ckpts, [rank |-> ArgRank(r), ckpt |-> LastCkpt(r), at |-> "last"])
          /\ closed' = closed \cup {ArgRank(r)}
     ELSE UNCHANGED <<ckpts, closed>>
  /\ pc' = [pc EXCEPT ![r] = "done"]
  /\ UNCHANGED <<setupVars, samplerVars, tknzrVars, lstmVars, vocabVars>>
  /\ UNCHANGED <<dsetLen, epoch, bi, step, avg_loss, pre_avg_loss, grad, posted, result, writers, scalars, losses, params>>

\* The steps of main from the dataset load to the end.
TrainStep(r) ==
  \/ LoadDset(r)
  \/ Setup(r)
  \/ DdpReady(r)
  \/ EpochStart(r)
  \/ NextBatch(r)
  \/ Forward(r)
  \/ BackwardDone(r)
  \/ Clip(r)
  \/ OptimStep(r)
  \/ LoopEnd(r)
  \/ JoinShadow(r)
  \/ ShadowDone(r)
  \/ JoinAll(r)
  \/ JoinExit(r)
  \/ Last(r)

\* ----------------------------------------------------------- the tokenizer
\* lmp.tknzr.WsTknzr (src/lmp/tknzr/_ws_tknzr.py) and what it inherits from
\* BaseTknzr.  A text and a token are sequences of code points.

\* The special tokens and their ids, as in the lookup table of
\* src/test/lmp/tknzr/_ws/test_enc_and_dec.py, lines 24-28.
bos_tk == <<91, 98, 111, 115, 93>>
eos_tk == <<91, 101, 111, 115, 93>>
pad_tk == <<91, 112, 97, 100, 93>>
unk_tk == <<91, 117, 110, 107, 93>>
bos_tkid == 0
eos_tkid == 1
pad_tkid == 2
unk_tkid == 3

\* The code points the pattern \s matches in a str (those of str.isspace).
WhiteSpace ==
  (9 .. 13) \cup (28 .. 32) \cup {133, 160, 5760} \cup (8192 .. 8202)
    \cup {8232, 8233, 8239, 8287, 12288}

IsSpace(cp) == cp \in WhiteSpace

\* str.lower() on a code point of the model's alphabet (ASCII).
LowerCp(cp) == IF cp \in 65 .. 90 THEN cp + 32 ELSE cp

Lower(txt) == [i \in 1 .. Len(txt) |-> LowerCp(txt[i])]

\* str.strip(): the text without its leading and trailing whitespace.
RECURSIVE LStrip(_)
LStrip(txt) ==
  IF txt # <<>> /\ IsSpace(Head(txt)) THEN LStrip(Tail(txt)) ELSE txt

RECURSIVE RStrip(_)
RStrip(txt) ==
  IF txt # <<>> /\ IsSpace(txt[Len(txt)])
  THEN RStrip(SubSeq(txt, 1, Len(txt) - 1))
  ELSE txt

Strip(txt) == RStrip(LStrip(txt))

\* re.sub(r'\s+', ' ', txt): every run of whitespace becomes one space.
RECURSIVE Collapse(_)
Collapse(txt) ==
  IF txt = <<>> THEN <<>>
  ELSE IF IsSpace(Head(txt))
       THEN <<32>> \o Collapse(LStrip(txt))
       ELSE <<Head(txt)>> \o Collapse(Tail(txt))

\* BaseTknzr.norm: leading and trailing whitespace is discarded, whitespace
\* runs become single spaces, and the text is lowercased when the tokenizer
\* is uncased.
norm(txt) ==
  LET t == Collapse(Strip(txt))
  IN IF tknzr.is_uncased THEN Lower(t) ELSE t

\* re.split(r'\s+', txt), line 123: the pieces between the whitespace runs,
\* an empty piece where the text starts or ends with a run; [''] for ''.
RECURSIVE SplitFrom(_, _, _, _)
SplitFrom(txt, i, cur, acc) ==
  IF i > Len(txt) THEN Append(acc, cur)
  ELSE IF IsSpace(txt[i])
       THEN IF i > 1 /\ IsSpace(txt[i - 1])
            THEN SplitFrom(txt, i + 1, cur, acc)
            ELSE SplitFrom(txt, i + 1, <<>>, Append(acc, cur))
       ELSE SplitFrom(txt, i + 1, Append(cur, txt[i]), acc)

ReSplit(txt) == SplitFrom(txt, 1, <<>>, <<>>)

\* Mutation: the list re.split returns is returned as it is.
TknzKeepsEmpty(txt) == ReSplit(norm(txt))

\* WsTknzr.tknz, lines 91-130.
tknz(txt) ==
  LET tks == ReSplit(norm(txt))
  IN IF tks = << <<>> >> THEN <<>> ELSE tks

\* ' '.join(tks).
RECURSIVE Join(_)
Join(tks) ==
  IF tks = <<>> THEN <<>>
  ELSE IF Len(tks) = 1 THEN tks[1]
  ELSE tks[1] \o <<32>> \o Join(Tail(tks))

\* ''.join(tks).
RECURSIVE Concat(_)
Concat(tks) == IF tks = <<>> THEN <<>> ELSE Head(tks) \o Concat(Tail(tks))

\* Mutation: the tokens are joined with nothing in between.
DtknzNoSpace(tks) == norm(Concat(tks))

\* WsTknzr.dtknz, lines 132-162.
dtknz(tks) == norm(Join(tks))

\* The id of a token: its entry in tk2id, the unknown-token id without one.
TkidOf(tk) == IF tk \in DOMAIN tknzr.tk2id THEN tknzr.tk2id[tk] ELSE unk_tkid

\* id2tk, the inverse of tk2id: the token of an id, the unknown token for
\* an id without entry.
TkOf(tkid) ==
  IF \E tk \in DOMAIN tknzr.tk2id : tknzr.tk2id[tk] = tkid
  THEN CHOOSE tk \in DOMAIN tknzr.tk2id : tknzr.tk2id[tk] = tkid
  ELSE unk_tk

\* BaseTknzr.enc: the text is tokenized, every token is looked up, and the
\* ids are put between the begin-of-text and the end-of-text id.
enc(txt) ==
  LET tks == tknz(txt)
  IN <<bos_tkid>> \o [i \in 1 .. Len(tks) |-> TkidOf(tks[i])] \o <<eos_tkid>>

\* Mutation: an id without entry is dropped.
DecSkipsUnknown(tkids) ==
  dtknz(SelectSeq([i \in 1 .. Len(tkids) |-> TkOf(tkids[i])],
                  LAMBDA tk : tk # unk_tk))

\* BaseTknzr.dec: every id is looked up and the tokens are detokenized.
dec(tkids) == dtknz([i \in 1 .. Len(tkids) |-> TkOf(tkids[i])])

\* Mutation: the padding is put in front.
PadInFront(max_seq_len, tkids) ==
  IF Len(tkids) >= max_seq_len THEN SubSeq(tkids, 1, max_seq_len)
  ELSE [i \in 1 .. (max_seq_len - Len(tkids)) |-> pad_tkid] \o tkids

\* BaseTknzr.pad_to_max: the padding id is appended up to max_seq_len ids;
\* the result has max_seq_len ids.
pad_to_max(max_seq_len, tkids) ==
  IF Len(tkids) >= max_seq_len THEN SubSeq(tkids, 1, max_seq_len)
  ELSE tkids \o [i \in 1 .. (max_seq_len - Len(tkids)) |-> pad_tkid]

\* Mutation: one id more than max_seq_len is kept.
TruncOneMore(max_seq_len, tkids) ==
  IF Len(tkids) <= max_seq_len THEN tkids ELSE SubSeq(tkids, 1, max_seq_len + 1)

\* Mutation: the last max_seq_len ids are kept.
TruncKeepsLast(max_seq_len, tkids) ==
  IF Len(tkids) <= max_seq_len THEN tkids
  ELSE SubSeq(tkids, Len(tkids) - max_seq_len + 1, Len(tkids))

\* BaseTknzr.trunc_to_max: tkids[:max_seq_len], the first max_seq_len ids.
trunc_to_max(max_seq_len, tkids) ==
  IF Len(tkids) <= max_seq_len THEN tkids ELSE SubSeq(tkids, 1, max_seq_len)

\* ---- WhitespaceDictTokenizer (lmp/tokenizer/_whitespace_dict_tokenizer.py)

\* unicodedata.normalize('NFKC', .) on a code point of the model's alphabet:
\* the no-break space and the ideographic space become a space.
NfkcCp(cp) == IF cp \in {160, 12288} THEN 32 ELSE cp

\* unicodedata.normalize('NFKC', sequence), line 113, on the model's
\* alphabet: the compatibility mappings of NfkcCp, and the composition of
\* 'j' and the combining caron U+030C into U+01F0 ('J' and the caron have no
\* composed form).
RECURSIVE NFKC(_)
NFKC(sequence) ==
  IF sequence = <<>> THEN <<>>
  ELSE IF Len(sequence) >= 2 /\ sequence[1] = 106 /\ sequence[2] = 780
       THEN <<496>> \o NFKC(SubSeq(sequence, 3, Len(sequence)))
       ELSE <<NfkcCp(Head(sequence))>> \o NFKC(Tail(sequence))

\* The text tokenize splits: normalized (line 113) and lowercased when the
\* tokenizer is uncased (lines 114-115).
Normalized(sequence) ==
  IF tknzr.is_uncased THEN Lower(NFKC(sequence)) ELSE NFKC(sequence)

\* Mutation: the normalized text is split without being stripped.
TokenizeNoStrip(sequence) ==
  LET seq == Normalized(sequence)
  IN IF seq = <<>> THEN <<>> ELSE ReSplit(seq)

\* WhitespaceDictTokenizer.tokenize, lines 79-121, on a str.
tokenize(sequence) ==
  LET seq == Strip(Normalized(sequence))
  IN IF seq = <<>> THEN <<>> ELSE ReSplit(seq)

\* WhitespaceDictTokenizer.detokenize, lines 123-150, on a list of str.
detokenize(tokens) == Join(tokens)

\* The caller holds token ids no dec has been called on, and may call
\* one more method.
HoldsIds ==
  /\ tkGiven = "ids" \/ (tkOps # <<>> /\ Head(tkOps) = "enc")
  /\ Len(tkOps) < MaxOps
  /\ \A i \in 1 .. Len(tkOps) : tkOps[i] # "dec"

\* tknzr.enc(txt) on the text given.
TkEnc ==
  /\ tkGiven = "txt"
  /\ tkOps = <<>>
  /\ tkIds' = enc(tkTxt)
  /\ tkOps' = <<"enc">>
  /\ UNCHANGED <<tkTks, tknzr, tkGiven, tkTxt, tkPrev, tkLen, tkOut>>
  /\ UNCHANGED <<pc, setupVars, trainVars, samplerVars, lstmVars, vocabVars>>

\* WsTknzr.tknz(txt) on the text given.
TkTknz ==
  /\ tkGiven = "txt"
  /\ tkOps = <<>>
  /\ tkTks' = tknz(tkTxt)
  /\ tkOps' = <<"tknz">>
  /\ UNCHANGED <<tknzr, tkGiven, tkTxt, tkIds, tkPrev, tkLen, tkOut>>
  /\ UNCHANGED <<pc, setupVars, trainVars, samplerVars, lstmVars, vocabVars>>

\* WsTknzr.dtknz(tks) on the tokens tknz returned.
TkDtknz ==
  /\ tkOps = <<"tknz">>
  /\ tkOut' = dtknz(tkTks)
  /\ tkOps' = Append(tkOps, "dtknz")
  /\ UNCHANGED <<tkTks, tknzr, tkGiven, tkTxt, tkIds, tkPrev, tkLen>>
  /\ UNCHANGED <<pc, setupVars, trainVars, samplerVars, lstmVars, vocabVars>>

\* WhitespaceDictTokenizer.tokenize(sequence) on the text given.
TkTokenize ==
  /\ tkGiven = "txt"
  /\ tkOps = <<>>
  /\ tkTks' = tokenize(tkTxt)
  /\ tkOps' = <<"tokenize">>
  /\ UNCHANGED <<tknzr, tkGiven, tkTxt, tkIds, tkPrev, tkLen, tkOut>>
  /\ UNCHANGED <<pc, setupVars, trainVars, samplerVars, lstmVars, vocabVars>>

\* WhitespaceDictTokenizer.detokenize(tokens) on the tokens tokenize
\* returned.
TkDetokenize ==
  /\ tkOps = <<"tokenize">>
  /\ tkOut' = detokenize(tkTks)
  /\ tkOps' = Append(tkOps, "detokenize")
  /\ UNCHANGED <<tkTks, tknzr, tkGiven, tkTxt, tkIds, tkPrev, tkLen>>
  /\ UNCHANGED <<pc, setupVars, trainVars, samplerVars, lstmVars, vocabVars>>

\* tknzr.dec(tkids) on the ids at hand.
TkDec ==
  /\ HoldsIds
  /\ tkOut' = dec(tkIds)
  /\ tkOps' = Append(tkOps, "dec")
  /\ UNCHANGED <<tkTks, tknzr, tkGiven, tkTxt, tkIds, tkPrev, tkLen>>
  /\ UNCHANGED <<pc, setupVars, trainVars, samplerVars, lstmVars, vocabVars>>

\* tknzr.pad_to_max(max_seq_len, tkids) on the ids at hand.
TkPad ==
  /\ HoldsIds
  /\ \E n \in 0 .. MaxSeqLen :
       /\ tkLen' = n
       /\ tkIds' = pad_to_max(n, tkIds)
  /\ tkPrev' = tkIds
  /\ tkOps' = Append(tkOps, "pad")
  /\ UNCHANGED <<tkTks, tknzr, tkGiven, tkTxt, tkOut>>
  /\ UNCHANGED <<pc, setupVars, trainVars, samplerVars, lstmVars, vocabVars>>

\* tknzr.trunc_to_max(max_seq_len, tkids) on the ids at hand.
TkTrunc ==
  /\ HoldsIds
  /\ \E n \in 0 .. MaxSeqLen :
       /\ tkLen' = n
       /\ tkIds' = trunc_to_max(n, tkIds)
  /\ tkPrev' = tkIds
  /\ tkOps' = Append(tkOps, "trunc")
  /\ UNCHANGED <<tkTks, tknzr, tkGiven, tkTxt, tkOut>>
  /\ UNCHANGED <<pc, setupVars, trainVars, samplerVars, lstmVars, vocabVars>>

\* ---------------------------------------------------- vocabulary building
\* Tokenizer training (--max_vocab and --min_count of lmp/config/_tknzr.py,
\* lines 30-47) builds the lookup table of a tokenizer from a corpus that is
\* already split into tokens.

\* The lookup table of a tokenizer of lmp.tknzr that has only the special
\* tokens.
SpecialTk2id ==
  (bos_tk :> bos_tkid) @@ (eos_tk :> eos_tkid) @@ (pad_tk :> pad_tkid)
    @@ (unk_tk :> unk_tkid)

\* token_to_id of a new lmp.tokenizer.WhitespaceListTokenizer, cased or
\* uncased: ['[BOS]', '[EOS]', '[PAD]', '[UNK]'], the id of a token being
\* its index in the list.
token_to_id ==
  << <<91, 66, 79, 83, 93>>, <<91, 69, 79, 83, 93>>, <<91, 80, 65, 68, 93>>,
     <<91, 85, 78, 75, 93>> >>

\* The classes of tokenizers that are trained.
TknzrClasses == {"WsTknzr", "WhitespaceListTokenizer"}

\* The special tokens of a tokenizer of class cls, in the order begin of
\* text, end of text, padding, unknown.
SpecialSeq(cls) ==
  IF cls = "WhitespaceListTokenizer" THEN token_to_id
  ELSE <<bos_tk, eos_tk, pad_tk, unk_tk>>

\* The lookup table of a new tokenizer of class cls.
NewTk2id(cls) ==
  IF cls = "WhitespaceListTokenizer"
  THEN [tk \in {token_to_id[i] : i \in DOMAIN token_to_id} |->
          (CHOOSE i \in DOMAIN token_to_id : token_to_id[i] = tk) - 1]
  ELSE SpecialTk2id

\* The special tokens of the tokenizer.
SpecialTks == DOMAIN NewTk2id(tknzr.cls)

\* The number of times tk occurs in the corpus c.
Freq(c, tk) == Cardinality({ i \in DOMAIN c : c[i] = tk })

\* The position of the first occurrence of tk in the corpus c.
FirstSeen(c, tk) ==
  CHOOSE i \in DOMAIN c : c[i] = tk /\ \A j \in 1 .. i - 1 : c[j] # tk

\* Token t comes before token u among the candidates: it is more frequent,
\* or as frequent and seen first.
Before(c, t, u) ==
  \/ Freq(c, t) > Freq(c, u)
  \/ Freq(c, t) = Freq(c, u) /\ FirstSeen(c, t) < FirstSeen(c, u)

\* The distinct tokens of the corpus c, sorted by frequency, ties in
\* first-seen order.
Candidates(c) ==
  LET tks == { c[i] : i \in DOMAIN c }
      nth(k) ==
        CHOOSE t \in tks :
          Cardinality({ u \in tks : Before(c, u, t) }) = k - 1
  IN [k \in 1 .. Cardinality(tks) |-> nth(k)]

\* The lookup table after the candidates from the i-th on have been
\* considered: the scan stops when the table has max_vocab tokens (never
\* when max_vocab is -1) or the candidate is less frequent than min_count;
\* a token already in the table keeps its id, a new one takes the next id.
RECURSIVE Admit(_, _, _, _, _, _)
Admit(tk2id, c, cands, i, max_vocab, min_count) ==
  IF i > Len(cands) THEN tk2id
  ELSE IF max_vocab # -1 /\ Cardinality(DOMAIN tk2id) >= max_vocab
       THEN tk2id
  ELSE IF Freq(c, cands[i]) < min_count THEN tk2id
  ELSE IF cands[i] \in DOMAIN tk2id
       THEN Admit(tk2id, c, cands, i + 1, max_vocab, min_count)
  ELSE Admit(tk2id @@ (cands[i] :> Cardinality(DOMAIN tk2id)), c, cands,
             i + 1, max_vocab, min_count)

\* Mutation: a candidate that is already in the table takes a new id.
BuildVocabRenumbers(tk2id, c, max_vocab, min_count) ==
  LET cands == Candidates(c)
      n == Cardinality({ k \in 1 .. Len(cands) :
                           Freq(c, cands[k]) >= min_count })
  IN [tk \in DOMAIN tk2id \cup { cands[k] : k \in 1 .. n } |->
        IF \E k \in 1 .. n : cands[k] = tk
        THEN Cardinality(DOMAIN tk2id) - 1
               + (CHOOSE k \in 1 .. n : cands[k] = tk)
        ELSE tk2id[tk]]

\* build_vocab: the lookup table tk2id extended with the tokens of corpus c.
build_vocab(tk2id, c, max_vocab, min_count) ==
  Admit(tk2id, c, Candidates(c), 1, max_vocab, min_count)

\* The tokenizer is trained on the corpus.
BuildVocab ==
  /\ tkGiven = "corpus"
  /\ Len(tkOps) < MaxOps
  /\ tknzr' =
       [tknzr EXCEPT !.tk2id =
          build_vocab(@, corpus, tknzr.max_vocab, tknzr.min_count)]
  /\ tkOps' = Append(tkOps, "build_vocab")
  /\ UNCHANGED <<tkGiven, tkTxt, tkIds, tkPrev, tkLen, tkOut, tkTks, corpus>>
  /\ UNCHANGED <<pc, setupVars, trainVars, samplerVars, lstmVars>>

\* reset_vocab: the lookup table holds the special tokens only, as in a new
\* tokenizer.
ResetVocab ==
  /\ tkGiven = "corpus"
  /\ Len(tkOps) < MaxOps
  /\ tknzr' = [tknzr EXCEPT !.tk2id = NewTk2id(tknzr.cls)]
  /\ tkOps' = Append(tkOps, "reset_vocab")
  /\ UNCHANGED <<tkGiven, tkTxt, tkIds, tkPrev, tkLen, tkOut, tkTks, corpus>>
  /\ UNCHANGED <<pc, setupVars, trainVars, samplerVars, lstmVars>>

\* ------------------------------------------------- LSTM-2002 (lmp.model)
\* The constructor of LSTM2002 is exercised by
\* src/test/lmp/model/_lstm_2002/test_init.py; the ranges below are the ones
\* that test requires of a model constructed with n_blk blocks of d_blk
\* cells.  A range (lo, hi) is the slice [lo : hi] of the pre-activation
\* vector proj_e2cg and proj_h2cg produce.

\* self.d_hid (test_init.py, line 29).
d_hid(n_blk, d_blk) == n_blk * d_blk

\* self.fg_range, the forget gate units (line 32).
fg_range(n_blk, d_blk) == << 0, n_blk >>

\* self.ig_range, the input gate units (line 35).
ig_range(n_blk, d_blk) == << n_blk, 2 * n_blk >>

\* self.og_range, the output gate units (line 38).
og_range(n_blk, d_blk) == << 2 * n_blk, 3 * n_blk >>

\* self.g_range, all the gate units (line 41).
g_range(n_blk, d_blk) == << 0, 3 * n_blk >>

\* A constructor whose memory cell inputs take one block only.
McRangeOneBlock(n_blk, d_blk) == << 3 * n_blk, 3 * n_blk + d_blk >>

\* self.mc_range, the memory cell input units (line 44).
mc_range(n_blk, d_blk) == << 3 * n_blk, n_blk * (3 + d_blk) >>

\* The output features of proj_e2cg[1] and of proj_h2cg (lines 59, 60, 78).
ProjOut(n_blk, d_blk) == n_blk * (3 + d_blk)

\* The indices a slice [lo : hi] of a vector of n elements selects, from 0.
Slice(rng, n) == { i \in 0 .. n - 1 : rng[1] <= i /\ i < rng[2] }

\* LSTM2002(d_blk, d_emb, n_blk, ...): the attributes of the new model.
Lstm2002Init ==
  /\ lstm = None
  /\ lstm' =
       [ t |-> "LSTM2002",
         n_blk |-> lstmArgs.n_blk,
         d_blk |-> lstmArgs.d_blk,
         d_emb |-> lstmArgs.d_emb,
         d_hid |-> d_hid(lstmArgs.n_blk, lstmArgs.d_blk),
         fg_range |-> fg_range(lstmArgs.n_blk, lstmArgs.d_blk),
         ig_range |-> ig_range(lstmArgs.n_blk, lstmArgs.d_blk),
         og_range |-> og_range(lstmArgs.n_blk, lstmArgs.d_blk),
         g_range |-> g_range(lstmArgs.n_blk, lstmArgs.d_blk),
         mc_range |-> mc_range(lstmArgs.n_blk, lstmArgs.d_blk),
         proj_e2cg |-> << ProjOut(lstmArgs.n_blk, lstmArgs.d_blk), lstmArgs.d_emb >>,
         proj_h2cg |-> << ProjOut(lstmArgs.n_blk, lstmArgs.d_blk),
                          d_hid(lstmArgs.n_blk, lstmArgs.d_blk) >> ]
  /\ UNCHANGED <<pc, setupVars, trainVars, samplerVars, tknzrVars, vocabVars,
               lstmArgs>>

\* ------------------------------------------------------ the specifications

\* The vocabulary model at rest.
VocabIdle == corpus = <<>>

\* The LSTM-2002 model at rest.
LstmIdle ==
  /\ lstmArgs = [n_blk |-> 1, d_blk |-> 1, d_emb |-> 1]
  /\ lstm = None

\* The tokenizer model at rest.
TknzrIdle ==
  /\ tknzr = [cls |-> "none", is_uncased |-> FALSE, max_vocab |-> -1,
              min_count |-> 1, tk2id |-> << >>]
  /\ tkGiven = "none"
  /\ tkTxt = <<>>
  /\ tkIds = <<>>
  /\ tkPrev = <<>>
  /\ tkLen = 0
  /\ tkOut = <<>>
  /\ tkOps = <<>>
  /\ tkTks = <<>>

\* The datasets ds and the shuffle orders gen of a job, before any process
\* has created its sampler.
SamplerInit(ds, gen) ==
  /\ dsets = ds
  /\ sGen = gen
  /\ sEpoch = [r \in Ranks |-> 0]
  /\ sPerm = [r \in Ranks |-> <<>>]
  /\ sDrawn = [r \in Ranks |-> <<>>]

\* One shuffle order of the indices of the largest dataset: the last first.
LastFirst == [i \in 1 .. MaxDsetLen |-> MaxDsetLen - i]

\* Every node holds a dataset of one of DsetLens; the generator shuffles
\* into the order LastFirst.
SamplerIdle == SamplerInit(DsetLens, {LastFirst})

\* The state in which parse_args has returned (line 323) on every process,
\* for the launches a.
InitSetup(a) ==
  /\ args = a
  /\ args0 = a
  /\ pc = [r \in Ranks |-> "validate"]
  /\ ki = [r \in Ranks |-> NextIdx(0)]
  /\ cfgSaved = {}
  /\ storeUp = FALSE
  /\ connected = {}
  /\ pgIn = {}
  /\ store = [k \in AllKeys |-> None]
  /\ writes = <<>>
  /\ reads = {}
  /\ seedSet = [r \in Ranks |-> None]
  /\ dsetLen = [r \in Ranks |-> 0]
  /\ epoch = [r \in Ranks |-> 0]
  /\ bi = [r \in Ranks |-> 0]
  /\ step = [r \in Ranks |-> 0]
  /\ avg_loss = [r \in Ranks |-> 0]
  /\ pre_avg_loss = [r \in Ranks |-> [num |-> 0, den |-> 1]]
  /\ grad = [r \in Ranks |-> [st |-> "zero", v |-> 0]]
  /\ posted = [r \in Ranks |-> None]
  /\ result = [r \in Ranks |-> None]
  /\ writers = {}
  /\ closed = {}
  /\ ckpts = <<>>
  /\ scalars = <<>>
  /\ losses = [r \in Ranks |-> <<>>]
  /\ params = [r \in Ranks |-> None]

\* The processes of one job, launched with command lines that may differ.
InitSync ==
  /\ \E ps \in [Ranks -> SyncProfiles] : InitSetup([r \in Ranks |-> Launch(r, ps[r])])
  /\ SamplerIdle
  /\ TknzrIdle
  /\ LstmIdle
  /\ VocabIdle

NextSync == \E r \in Ranks : SetupStep(r)

\* main up to the seeding, for launches that differ between the processes.
SpecSync == InitSync /\ [][NextSync]_vars

\* A command line every check accepts, with the smallest values they accept
\* for the intervals, the norm and the epochs.
ValidProfile ==
  [ batch_size |-> WorldSize, ckpt_step |-> 1, exp_name |-> <<97>>,
    log_step |-> 1, max_norm |-> 0, n_epoch |-> 1, warmup_step |-> 0,
    is_dset_in_memory |-> FALSE, seed |-> 42 ]

\* The namespaces of launches of process r: the accepted one, accepted ones
\* at the upper limits of --n_worker, and ones with one argument, or two,
\* moved out of the range a check accepts.
ValidateLaunches(r) ==
  LET base == Launch(r, ValidProfile)
  IN { base,
       [base EXCEPT !.batch_size = PyInt(Cpus), !.n_worker = PyInt(Cpus)],
       [base EXCEPT !.batch_size = PyInt(1), !.n_worker = PyInt(1)],
       [base EXCEPT !.batch_size = PyInt(0)],
       [base EXCEPT !.ckpt_step = PyInt(0)],
       [base EXCEPT !.log_step = PyInt(0)],
       [base EXCEPT !.max_norm = PyFloat(-1)],
       [base EXCEPT !.n_epoch = PyInt(0)],
       [base EXCEPT !.n_worker = PyInt(-1)],
       [base EXCEPT !.batch_size = PyInt(Cpus + 1), !.n_worker = PyInt(Cpus + 1)],
       [base EXCEPT !.batch_size = PyInt(1), !.n_worker = PyInt(2)],
       [base EXCEPT !.local_rank = PyInt(-1)],
       [base EXCEPT !.rank = PyInt(-1)],
       [base EXCEPT !.rank = PyInt(WorldSize)],
       [base EXCEPT !.world_size = PyInt(0)],
       [base EXCEPT !.world_size = PyInt(-1)] }

\* The processes of one job, each launched with one of ValidateLaunches.
InitValidate ==
  /\ \E a \in [Ranks -> UNION {ValidateLaunches(r) : r \in Ranks}] :
       /\ \A r \in Ranks : a[r] \in ValidateLaunches(r)
       /\ InitSetup(a)
  /\ SamplerIdle
  /\ TknzrIdle
  /\ LstmIdle
  /\ VocabIdle

\* main up to the seeding, for launches the validation accepts or rejects.
SpecValidate == InitValidate /\ [][NextSync]_vars

\* Command lines of short trainings: the local batch size is one.
TrainProfiles ==
  { [ batch_size |-> WorldSize, ckpt_step |-> c, exp_name |-> <<97>>,
      log_step |-> l, max_norm |-> 10, n_epoch |-> e, warmup_step |-> 1,
      is_dset_in_memory |-> FALSE, seed |-> 42 ] :
    c \in 1 .. MaxInterval, l \in 1 .. MaxInterval, e \in 1 .. MaxEpoch }

\* A command line that agrees with none of TrainProfiles on the batch size,
\* and with some of them on nothing.
StrayProfile ==
  [ batch_size |-> 2 * WorldSize, ckpt_step |-> MaxInterval + 1, exp_name |-> <<98>>,
    log_step |-> MaxInterval + 1, max_norm |-> 5, n_epoch |-> MaxEpoch + 1,
    warmup_step |-> 0,
    is_dset_in_memory |-> TRUE, seed |-> 7 ]

\* The processes of one job: the host launched with a short training, the
\* other processes all with the same command line or all with the stray one.
Init ==
  /\ \E p \in TrainProfiles :
       \E q \in {p, StrayProfile} :
         InitSetup([r \in Ranks |-> Launch(r, IF r = HOST_RANK THEN p ELSE q)])
  /\ SamplerIdle
  /\ TknzrIdle
  /\ LstmIdle
  /\ VocabIdle

\* A step of process r.
ProcStep(r) == SetupStep(r) \/ TrainStep(r)

Next ==
  \/ \E r \in Ranks : SetupStep(r)
  \/ \E r \in Ranks : TrainStep(r)
  \/ AllReduce

\* The whole of main on every process.
Spec == Init /\ [][Next]_vars

\* The whole of main on every process, for launches the validation accepts
\* or rejects.
SpecLaunch == InitValidate /\ [][Next]_vars

\* Trainings of MaxEpoch epochs with a local batch of one sample or of two
\* and a warm-up of up to MaxWarmup steps.
ReplicaProfiles ==
  { [ batch_size |-> b * WorldSize, ckpt_step |-> 1, exp_name |-> <<97>>,
      log_step |-> 1, max_norm |-> 10, n_epoch |-> MaxEpoch, warmup_step |-> w,
      is_dset_in_memory |-> FALSE, seed |-> 42 ] :
    b \in 1 .. 2, w \in 0 .. MaxWarmup }

\* The processes of one job, all launched with the same command line.
InitReplica ==
  /\ \E p \in ReplicaProfiles : InitSetup([r \in Ranks |-> Launch(r, p)])
  /\ SamplerIdle
  /\ TknzrIdle
  /\ LstmIdle
  /\ VocabIdle

\* The whole of main on every process, for the trainings of ReplicaProfiles.
SpecReplica == InitReplica /\ [][Next]_vars

\* Every process keeps running while it has a step to take, and the
\* backend completes a collective every process has entered.
Fairness ==
  /\ \A r \in Ranks : WF_vars(ProcStep(r))
  /\ WF_vars(AllReduce)

\* Command lines of short trainings that log and save at every step.
FairProfiles == {p \in TrainProfiles : p.ckpt_step = 1 /\ p.log_step = 1}

\* As Init, for the trainings of FairProfiles.
InitFair ==
  /\ \E p \in FairProfiles :
       \E q \in {p, StrayProfile} :
         InitSetup([r \in Ranks |-> Launch(r, IF r = HOST_RANK THEN p ELSE q)])
  /\ SamplerIdle
  /\ TknzrIdle
  /\ LstmIdle
  /\ VocabIdle

\* The whole of main on every process, under fair scheduling.
SpecFair == InitFair /\ [][Next]_vars /\ Fairness

\* A dataset of up to MaxSamples samples, of which a node holds either the
\* whole or the first sample only, and which the generator can shuffle into
\* any order; the trainings of ReplicaProfiles.
InitSampler ==
  /\ \E p \in ReplicaProfiles : InitSetup([r \in Ranks |-> Launch(r, p)])
  /\ \E n \in 1 .. MaxSamples : SamplerInit({1, n}, Shuffles(n))
  /\ TknzrIdle
  /\ LstmIdle
  /\ VocabIdle

\* The whole of main on every process, over a dataset in any shuffle.
SpecSampler == InitSampler /\ [][Next]_vars

\* The lookup table of src/test/lmp/tknzr/_ws/test_enc_and_dec.py, lines
\* 24-35, up to its entries 'a' and 'b'.
TestTk2id == SpecialTk2id @@ (<<97>> :> 4) @@ (<<98>> :> 5)

\* The tokenizers: cased or uncased, with one of the two lookup tables.
Tknzrs ==
  { [cls |-> "WsTknzr", is_uncased |-> u, max_vocab |-> -1, min_count |-> 1,
     tk2id |-> t] :
      u \in BOOLEAN, t \in {SpecialTk2id, TestTk2id} }

\* The words of the texts: 'a', 'A', 'J' with a combining caron (U+030C) and
\* '[bos]'.
Words == { <<97>>, <<65>>, <<74, 780>>, bos_tk }

\* The whitespace between two words: a space, or a tab and an ideographic
\* space (U+3000).
Seps == { <<32>>, <<9, 12288>> }

\* The texts of n words.
RECURSIVE TextsOf(_)
TextsOf(n) ==
  IF n = 0 THEN { <<>> }
  ELSE IF n = 1 THEN Words
  ELSE { w \o sp \o t : w \in Words, sp \in Seps, t \in TextsOf(n - 1) }

\* The texts given to enc: up to MaxWords words, with or without a leading
\* space and a trailing newline.
Texts ==
  { l \o t \o tr :
      l \in { <<>>, <<32>> }, tr \in { <<>>, <<10>> },
      t \in UNION { TextsOf(n) : n \in 0 .. MaxWords } }

\* The ids of the sequences given to dec, pad_to_max and trunc_to_max: the
\* begin-of-text id, the padding id, the id of 'a' and an id larger than
\* every id of the lookup tables.
IdValues == { bos_tkid, pad_tkid, TestTk2id[<<97>>], Cardinality(DOMAIN TestTk2id) }

IdSeqs == UNION { [1 .. n -> IdValues] : n \in 0 .. MaxIds }

\* A tokenizer and a caller that holds a text, or a sequence of token ids.
InitTknzr ==
  /\ InitSetup([r \in Ranks |-> Launch(r, ValidProfile)])
  /\ SamplerIdle
  /\ tknzr \in Tknzrs
  /\ \/ tkGiven = "txt" /\ tkTxt \in Texts /\ tkIds = <<>>
     \/ tkGiven = "ids" /\ tkTxt = <<>> /\ tkIds \in IdSeqs
  /\ tkPrev = <<>>
  /\ tkLen = 0
  /\ tkOut = <<>>
  /\ tkOps = <<>>
  /\ tkTks = <<>>
  /\ LstmIdle
  /\ VocabIdle

NextTknzr ==
  \/ TkEnc \/ TkDec \/ TkPad \/ TkTrunc
  \/ TkTknz \/ TkDtknz \/ TkTokenize \/ TkDetokenize

\* The methods of a tokenizer called one after the other.
SpecTknzr == InitTknzr /\ [][NextTknzr]_vars

\* The tokens of a corpus: 'a', 'b', '[bos]' and '[BOS]'.
CorpusTks == { <<97>>, <<98>>, bos_tk, token_to_id[1] }

\* The corpora: up to MaxCorpus tokens.
Corpora == UNION { [1 .. n -> CorpusTks] : n \in 0 .. MaxCorpus }

\* A new tokenizer, cased or uncased, with its vocabulary limits, and the
\* corpus it is trained on.
InitVocab ==
  /\ InitSetup([r \in Ranks |-> Launch(r, ValidProfile)])
  /\ SamplerIdle
  /\ LstmIdle
  /\ tknzr \in
       { [ cls |-> c, is_uncased |-> u, max_vocab |-> mv, min_count |-> mc,
           tk2id |-> NewTk2id(c) ] :
         c \in TknzrClasses, u \in BOOLEAN,
         mv \in {-1} \cup (0 .. MaxVocab), mc \in 1 .. MaxMinCount }
  /\ tkGiven = "corpus"
  /\ corpus \in Corpora
  /\ tkTxt = <<>>
  /\ tkIds = <<>>
  /\ tkPrev = <<>>
  /\ tkLen = 0
  /\ tkOut = <<>>
  /\ tkOps = <<>>
  /\ tkTks = <<>>

NextVocab == BuildVocab \/ ResetVocab

\* Tokenizer training and vocabulary reset on a new tokenizer.
SpecVocab == InitVocab /\ [][NextVocab]_vars

\* The arguments of the constructor: at least one block, one cell a block
\* and one embedding dimension.
LstmArgs ==
  [ n_blk : 1 .. MaxBlk, d_blk : 1 .. MaxDBlk, d_emb : 1 .. MaxDEmb ]

InitLstm ==
  /\ InitSetup([r \in Ranks |-> Launch(r, ValidProfile)])
  /\ SamplerIdle
  /\ TknzrIdle
  /\ lstmArgs \in LstmArgs
  /\ lstm = None
  /\ VocabIdle

NextLstm == Lstm2002Init

\* The construction of one LSTM-2002 model.
SpecLstm == InitLstm /\ [][NextLstm]_vars

\* ------------------------------------------------------------- properties

\* Where a process is once its sync loop has ended.
AfterSync ==
  { "set_seed", "load", "setup", "ddp_init", "epoch", "fetch", "forward",
    "backward", "clip", "optim", "joined", "shadow", "join_exit", "last",
    "done" }

NonHosts == Ranks \ {HOST_RANK}

\* C1: after the sync loop, every synchronised field of every process equals
\* the host's value of that field, whatever its type (a bool flag that is
\* False on the host included).
C1_SyncedEqualsHost ==
  \A r \in Ranks :
    pc[r] \in AfterSync =>
      \A k \in SyncedKeys : args[r][k] = args[HOST_RANK][k]

\* C2: a value a non-host process received keeps the type the local value
\* had before the sync; a str is the text the host wrote, and any other
\* value is what the type's constructor makes of the bytes the host stored.
C2_TypePreserved ==
  \A rd \in reads :
    LET r == rd.rank
        before == args0[r][rd.key]
        after == args[r][rd.key]
    IN pc[r] # "aborted" =>
         /\ TypeOf(after) = TypeOf(before)
         /\ TypeOf(before) = "str" => after.v = args0[HOST_RANK][rd.key].v
         /\ TypeOf(before) # "str" => after = Construct(TypeOf(before), rd.val.v)

\* C2 witness: a non-host process has finished the sync with a two-byte
\* code point in the name it received and a norm that replaced its own.
C2_Witness ==
  \E r \in NonHosts :
    /\ pc[r] = "load"
    /\ args0[r].exp_name # args0[HOST_RANK].exp_name
    /\ args[r].exp_name = PyStr(<<233, 120>>)
    /\ args[r].max_norm # args0[r].max_norm
    /\ args[r].is_dset_in_memory # args0[r].is_dset_in_memory

\* C3: the five distributed-training fields of every process stay what the
\* command line gave, no store key of theirs is ever written or read, and
\* the sync changes no field of the host.
C3_IdentityLocal ==
  /\ \A r \in Ranks : \A k \in dist_args_k : args[r][k] = args0[r][k]
  /\ \A i \in DOMAIN writes : writes[i].key \notin dist_args_k
  /\ \A rd \in reads : rd.key \notin dist_args_k
  /\ \A k \in dist_args_k : store[k] = None
  /\ args[HOST_RANK] = args0[HOST_RANK]

\* C3 witness: every process has ended its sync loop, a non-host process
\* holds changed fields, and its rank is still not the host's.
C3_Witness ==
  /\ \A r \in Ranks : pc[r] = "load"
  /\ \E r \in NonHosts : args[r] # args0[r] /\ args[r].rank # args[HOST_RANK].rank

\* C4: every store.set is the host's, no key is set twice, the host sets
\* every synchronised key before its loop ends, and every store.get that
\* returned, on a non-host process, returned the bytes the host had set for
\* that key: the text of the host's value.
C4_WriteOnceReadMany ==
  /\ \A i \in DOMAIN writes : writes[i].rank = HOST_RANK
  /\ \A i, j \in DOMAIN writes : i # j => writes[i].key # writes[j].key
  /\ pc[HOST_RANK] \in AfterSync =>
       {writes[i].key : i \in DOMAIN writes} = SyncedKeys
  /\ \A rd \in reads :
       /\ rd.rank # HOST_RANK
       /\ \E i \in DOMAIN writes : writes[i].key = rd.key /\ writes[i].val = rd.val
       /\ rd.val = PyBytes(Sent(args0[HOST_RANK][rd.key]))

\* C4 witness: every non-host process has read every synchronised key.
C4_Witness ==
  /\ \A r \in Ranks : pc[r] = "load"
  /\ Cardinality(reads) = Cardinality(NonHosts) * Cardinality(SyncedKeys)

\* C5: the seed a process of rank r installs is the host's command-line
\* seed plus r, so no two processes install the same seed.
C5_SeedIsHostSeedPlusRank ==
  /\ \A r \in Ranks :
       seedSet[r] # None => seedSet[r] = PyInt(args0[HOST_RANK].seed.v + r)
  /\ \A r, q \in Ranks :
       (r # q /\ seedSet[r] # None /\ seedSet[q] # None) => seedSet[r] # seedSet[q]

\* C5 witness: all processes are seeded, and one was launched with a seed
\* that, plus its rank, is the host's seed.
C5_Witness ==
  /\ \A r \in Ranks : seedSet[r] # None
  /\ \E r \in NonHosts : args0[r].seed.v + r = args0[HOST_RANK].seed.v

\* The set of indices the sampler of process r has yielded in its epoch.
DrawnBy(r) == {sDrawn[r][i] : i \in 1 .. Len(sDrawn[r])}

\* Every process has drawn all the indices of its sampler, in the same epoch
\* over the same dataset.
EpochDrawn ==
  \A r \in Ranks :
    /\ sPerm[r] # <<>>
    /\ dsetLen[r] = dsetLen[HOST_RANK]
    /\ sEpoch[r] = sEpoch[HOST_RANK]
    /\ Len(sDrawn[r]) = NumSamples(dsetLen[r], WorldSize)

RECURSIVE TotalDrawn(_)
TotalDrawn(n) == IF n < 0 THEN 0 ELSE Len(sDrawn[n]) + TotalDrawn(n - 1)

\* C6: in every epoch the index sets of the ranks are pairwise disjoint,
\* their union is 0 .. N-1 with every index drawn once over all ranks, and
\* their sizes differ by at most one.
C6_ExactPartition ==
  EpochDrawn =>
    /\ \A r, q \in Ranks : r # q => DrawnBy(r) \cap DrawnBy(q) = {}
    /\ UNION {DrawnBy(r) : r \in Ranks} = 0 .. (dsetLen[HOST_RANK] - 1)
    /\ TotalDrawn(WorldSize - 1) = dsetLen[HOST_RANK]
    /\ \A r, q \in Ranks : Len(sDrawn[r]) - Len(sDrawn[q]) <= 1

\* The sum of the gradients the ranks contribute for batch b of epoch e: the
\* batch's gradient of a rank that has such a batch, zero of one that has
\* joined.
RECURSIVE RoundSum(_, _, _)
RoundSum(n, e, b) ==
  IF n < 0 THEN 0
  ELSE (IF b < LoaderLen(n) THEN LossOf(n, e, b) ELSE 0) + RoundSum(n - 1, e, b)

\* C7: whenever a process is about to clip or to step the optimizer, the
\* gradient it holds is the all-reduced one of that batch's round over all
\* ranks (clipped, once line 500 has run), never its local gradient.
C7_AveragedBeforeStep ==
  \A r \in Ranks :
    LET avg == [st |-> "averaged", v |-> RoundSum(WorldSize - 1, epoch[r], bi[r])]
    IN /\ pc[r] = "clip" => grad[r] = avg
       /\ pc[r] = "optim" =>
            grad[r] = [ st |-> "clipped",
                        v |-> Min(10 * avg.v, args[r].max_norm.v * args[r].world_size.v) ]

\* C7 witness: a process is about to step the optimizer on a batch that
\* another process, which has joined, does not have.
C7_Witness ==
  \E r, q \in Ranks :
    /\ pc[r] = "optim"
    /\ pc[q] \in {"joined", "shadow"}
    /\ bi[r] >= LoaderLen(q)

\* C8: once every process has ended its sync loop, every process finishes
\* all its epochs and main returns, also when the ranks have different
\* numbers of batches.
C8_Terminates ==
  (\A r \in Ranks : pc[r] \in AfterSync) ~> (\A r \in Ranks : pc[r] = "done")

\* C8 witness: all processes are done after two or more epochs in which
\* their data loaders had different lengths.
C8_Witness ==
  /\ \A r \in Ranks : pc[r] = "done" /\ epoch[r] = args[r].n_epoch.v /\ epoch[r] >= 2
  /\ \E r, q \in Ranks : LoaderLen(r) < LoaderLen(q)

\* C9: the configuration is saved, the tensorboard writer is created, a
\* checkpoint is written and a scalar is emitted by the process of rank
\* HOST_RANK only.
C9_HostOnly ==
  /\ cfgSaved \subseteq {HOST_RANK}
  /\ writers \subseteq {HOST_RANK}
  /\ \A i \in DOMAIN ckpts : ckpts[i].rank = HOST_RANK
  /\ \A i \in DOMAIN scalars : scalars[i].rank = HOST_RANK

\* C9 witness: the job is done; the host did all four, and a non-host
\* process made optimizer steps too.
C9_Witness ==
  /\ \A r \in Ranks : pc[r] = "done"
  /\ cfgSaved = {HOST_RANK}
  /\ writers = {HOST_RANK}
  /\ Len(ckpts) >= 2
  /\ Len(scalars) >= 2
  /\ \E r \in NonHosts : step[r] >= 2

\* C10 as claimed: every checkpoint is tagged with a multiple of ckpt_step
\* and every scalar is emitted at a multiple of log_step.
C10_AllAtInterval ==
  /\ \A i \in DOMAIN ckpts : ckpts[i].ckpt % args[HOST_RANK].ckpt_step.v = 0
  /\ \A i \in DOMAIN scalars : scalars[i].step % args[HOST_RANK].log_step.v = 0

\* C10 amended: every checkpoint written inside the training loop is tagged
\* with a positive multiple of ckpt_step, every scalar is emitted at a
\* positive multiple of log_step, and the last checkpoint, written after
\* the loop, is tagged with the final step whatever it is.
C10_LoopAtInterval ==
  /\ \A i \in DOMAIN ckpts :
       /\ ckpts[i].at = "loop" =>
            ckpts[i].ckpt > 0 /\ ckpts[i].ckpt % args[HOST_RANK].ckpt_step.v = 0
       /\ ckpts[i].at = "last" =>
            i = Len(ckpts) /\ pc[HOST_RANK] = "done" /\ ckpts[i].ckpt = step[HOST_RANK]
  /\ \A i \in DOMAIN scalars :
       scalars[i].step > 0 /\ scalars[i].step % args[HOST_RANK].log_step.v = 0

\* C10 witness: a checkpoint was written in the loop, scalars were emitted,
\* and the last checkpoint is tagged with a step that is no multiple of
\* ckpt_step.
C10_Witness ==
  /\ scalars # << >>
  /\ \E i, j \in DOMAIN ckpts :
       /\ ckpts[i].at = "loop"
       /\ ckpts[j].at = "last"
       /\ ckpts[j].ckpt % args[HOST_RANK].ckpt_step.v # 0

\* C11 as claimed: the step tags of successive checkpoint writes are strictly
\* increasing, the last checkpoint included, so no step is written twice.
C11_StrictlyIncreasing ==
  \A i, j \in DOMAIN ckpts : i < j => ckpts[i].ckpt < ckpts[j].ckpt

\* C11 amended: the step tags of successive checkpoint writes never
\* decrease, those written inside the loop strictly increase, and a tag is
\* written twice only by the last checkpoint, which then repeats the tag of
\* the checkpoint the loop wrote at the final step.
C11_NonDecreasing ==
  \A i, j \in DOMAIN ckpts :
    i < j =>
      /\ ckpts[i].ckpt <= ckpts[j].ckpt
      /\ ckpts[i].at = "loop"
      /\ ckpts[i].ckpt = ckpts[j].ckpt =>
           /\ j = i + 1
           /\ j = Len(ckpts)
           /\ ckpts[j].at = "last"
           /\ ckpts[j].ckpt = step[HOST_RANK]
           /\ ckpts[j].ckpt % args[HOST_RANK].ckpt_step.v = 0

\* C11 witness: the job is done, the loop wrote two or more checkpoints and
\* the last checkpoint repeats the tag of the one before it.
C11_Witness ==
  /\ pc[HOST_RANK] = "done"
  /\ Len(ckpts) >= 3
  /\ ckpts[Len(ckpts)].at = "last"
  /\ ckpts[Len(ckpts) - 1].ckpt = ckpts[Len(ckpts)].ckpt
  /\ ckpts[1].ckpt < ckpts[2].ckpt

\* The checks of lines 325-352 that C12 lists, on the namespace a.
OutOfRange(a) ==
  \/ a.batch_size.v < 1
  \/ a.ckpt_step.v < 1
  \/ a.log_step.v < 1
  \/ a.max_norm.v < 0
  \/ a.n_epoch.v < 1
  \/ a.n_worker.v < 0
  \/ a.n_worker.v > a.batch_size.v
  \/ a.local_rank.v < 0
  \/ a.rank.v < 0
  \/ a.rank.v >= a.world_size.v

\* Where a process is when main has not got past the validation.
NotPastValidation == {"validate", "rejected"}

\* C12: a process launched with an argument out of the listed ranges never
\* gets past the validation, and one whose validation is over was rejected
\* if so; every process past the validation has 0 <= rank < world_size.
C12_RejectsOutOfRange ==
  \A r \in Ranks :
    /\ OutOfRange(args0[r]) => pc[r] \in NotPastValidation
    /\ pc[r] \notin NotPastValidation =>
         0 <= ArgRank(r) /\ ArgRank(r) < args[r].world_size.v

\* C12 witness: one process was rejected for a rank equal to world_size,
\* another one passed with as many workers as its batch size allows.
C12_Witness ==
  \E r, q \in Ranks :
    /\ pc[r] = "rejected"
    /\ args0[r].rank.v = args0[r].world_size.v
    /\ pc[q] \notin NotPastValidation
    /\ args0[q].n_worker.v = args0[q].batch_size.v
    /\ args0[q].n_worker.v > 0

\* Process r has done nothing of lines 354-460: no configuration saved, no
\* store created or connected to, no process group entered, no key written
\* or read, no seed set, no dataset loaded, no model wrapped, no writer.
NoSideEffect(r) ==
  /\ args0[r].rank.v \notin cfgSaved
  /\ args0[r].rank.v = HOST_RANK => ~storeUp
  /\ r \notin connected
  /\ r \notin pgIn
  /\ \A i \in DOMAIN writes : writes[i].rank # args0[r].rank.v
  /\ \A rd \in reads : rd.rank # args0[r].rank.v
  /\ args[r] = args0[r]
  /\ seedSet[r] = None
  /\ dsetLen[r] = 0
  /\ posted[r] = None
  /\ args0[r].rank.v \notin writers

\* C13: a process one of whose argument checks fails has, at every moment
\* of its run, done nothing of what follows the validation in main.
C13_ValidationFirst ==
  \A r \in Ranks : Rejects(args0[r]) => NoSideEffect(r)

\* C13 witness: the process launched as the host was rejected, while a
\* process that passed has gone on and given up waiting for the host.
C13_Witness ==
  \E r, q \in Ranks :
    /\ pc[r] = "rejected"
    /\ args0[r].rank.v = HOST_RANK
    /\ pc[q] = "rdv_failed"

\* Process r has done nothing of lines 376-540: no key written or read, no
\* field replaced, no seed set, no dataset loaded, no model wrapped, no
\* writer created, no checkpoint saved and no scalar emitted.
NothingAfterRendezvous(r) ==
  /\ \A i \in DOMAIN writes : writes[i].rank # ArgRank(r)
  /\ \A rd \in reads : rd.rank # ArgRank(r)
  /\ args[r] = args0[r]
  /\ seedSet[r] = None
  /\ dsetLen[r] = 0
  /\ posted[r] = None /\ result[r] = None
  /\ step[r] = 0
  /\ ArgRank(r) \notin writers
  /\ \A i \in DOMAIN ckpts : ckpts[i].rank # ArgRank(r)
  /\ \A i \in DOMAIN scalars : scalars[i].rank # ArgRank(r)

\* C14: a process leaves a rendezvous wait that cannot complete only by
\* aborting (it does not start the rendezvous again or go on), an aborted
\* process stays aborted, and it has done nothing of the sync, the model
\* construction, the training, the checkpoints and the logs.
C14_RendezvousFailureAborts ==
  [][\A r \in Ranks :
       /\ (BlockedOnRendezvous(r) /\ pc'[r] # pc[r]) => pc'[r] = "rdv_failed"
       /\ pc[r] = "rdv_failed" => pc'[r] = "rdv_failed"
       /\ pc'[r] = "rdv_failed" => NothingAfterRendezvous(r)']_vars

\* C14 witness: a process gave up in init_process_group; the host, which
\* entered later, has written the keys and loaded its dataset.
C14_Witness ==
  \E r \in NonHosts :
    /\ pc[r] = "rdv_failed"
    /\ r \in pgIn
    /\ writes # << >>
    /\ dsetLen[HOST_RANK] > 0

\* The method called last.
LastOp == IF tkOps = <<>> THEN "none" ELSE tkOps[Len(tkOps)]

\* C15: enc(text) is the begin-of-text id, then for every token of the text,
\* in order, its id in the vocabulary or else the unknown-token id, then the
\* end-of-text id: two ids more than tokens; a token spelled like a special
\* token gets that token's id; a text without tokens gives [bos, eos].
C15_EncBracketsAndSubstitutes ==
  tkOps = <<"enc">> =>
    LET tks == tknz(tkTxt)
    IN /\ Len(tkIds) = Len(tks) + 2
       /\ tkIds[1] = bos_tkid
       /\ tkIds[Len(tkIds)] = eos_tkid
       /\ \A i \in 1 .. Len(tks) :
            /\ tks[i] \in DOMAIN tknzr.tk2id => tkIds[i + 1] = tknzr.tk2id[tks[i]]
            /\ tks[i] \notin DOMAIN tknzr.tk2id => tkIds[i + 1] = unk_tkid
            /\ tks[i] = bos_tk => tkIds[i + 1] = bos_tkid
       /\ Strip(tkTxt) = <<>> => tkIds = <<bos_tkid, eos_tkid>>

\* C15 witness: a text of an unknown word and a word spelled like the
\* begin-of-text token has been encoded.
C15_Witness ==
  /\ tkOps = <<"enc">>
  /\ tkIds = <<bos_tkid, unk_tkid, bos_tkid, eos_tkid>>
  /\ tkTxt # norm(tkTxt)

\* C16: dec(ids) is the token strings of the ids, in order, with one space
\* between two of them; a special id gives its token string, an id without
\* entry the unknown-token string, and no ids give the empty text.
C16_DecJoinsTokens ==
  LastOp = "dec" =>
    /\ tkOut = Join([i \in 1 .. Len(tkIds) |-> TkOf(tkIds[i])])
    /\ tkIds = <<>> => tkOut = <<>>
    /\ tkIds # <<>> =>
         /\ Len(ReSplit(tkOut)) = Len(tkIds)
         /\ \A i \in 1 .. Len(tkIds) :
              /\ tkIds[i] = bos_tkid => ReSplit(tkOut)[i] = bos_tk
              /\ tkIds[i] = pad_tkid => ReSplit(tkOut)[i] = pad_tk
              /\ (\A tk \in DOMAIN tknzr.tk2id : tknzr.tk2id[tk] # tkIds[i])
                   => ReSplit(tkOut)[i] = unk_tk

\* C16 witness: ids given by the caller, among them a padding id and an id
\* without entry, have been decoded.
C16_Witness ==
  /\ tkOps = <<"dec">>
  /\ Len(tkIds) = 3
  /\ \E i, j \in 1 .. 3 :
       /\ tkIds[i] = pad_tkid
       /\ \A tk \in DOMAIN tknzr.tk2id : tknzr.tk2id[tk] # tkIds[j]

\* Every token of the text given is in the vocabulary.
AllKnown == \A i \in 1 .. Len(tknz(tkTxt)) : tknz(tkTxt)[i] \in DOMAIN tknzr.tk2id

\* C17 as claimed: for a text whose tokens are all in the vocabulary,
\* dec(enc(text)) is the text's token sequence: the normalized text.
C17_RoundTrip ==
  (tkOps = <<"enc", "dec">> /\ AllKnown) =>
    /\ tkOut = norm(tkTxt)
    /\ tknz(tkOut) = tknz(tkTxt)

\* C17 amended: for a text whose tokens are all in the vocabulary,
\* dec(enc(text)) is the text's token sequence between the begin-of-text
\* and the end-of-text token, joined by single spaces.
C17_RoundTripBracketed ==
  (tkOps = <<"enc", "dec">> /\ AllKnown) =>
    /\ tknz(tkOut) = <<bos_tk>> \o tknz(tkTxt) \o <<eos_tk>>
    /\ tkOut = bos_tk \o <<32>>
                 \o (IF tknz(tkTxt) = <<>> THEN <<>> ELSE norm(tkTxt) \o <<32>>)
                 \o eos_tk

\* C17 witness: a text of two known words with whitespace that the
\* normalization changes has been encoded and decoded.
C17_Witness ==
  /\ tkOps = <<"enc", "dec">>
  /\ AllKnown
  /\ Len(tknz(tkTxt)) = 2
  /\ Len(tkTxt) > Len(norm(tkTxt)) + 1

\* C18: pad_to_max(L, ids) has L ids; its first min(L, len(ids)) ids are
\* those of ids, and every id after them is the padding id.
C18_PadToMax ==
  LastOp = "pad" =>
    /\ Len(tkIds) = tkLen
    /\ \A i \in 1 .. Min(tkLen, Len(tkPrev)) : tkIds[i] = tkPrev[i]
    /\ \A i \in (Min(tkLen, Len(tkPrev)) + 1) .. Len(tkIds) : tkIds[i] = pad_tkid

\* C18 witness: ids that are not padding ids were padded by two or more.
C18_Witness ==
  /\ LastOp = "pad"
  /\ tkPrev # <<>>
  /\ \A i \in 1 .. Len(tkPrev) : tkPrev[i] # pad_tkid
  /\ tkLen >= Len(tkPrev) + 2

\* C19: trunc_to_max(L, ids) is the first min(L, len(ids)) ids of ids: not
\* more than L ids, and ids itself when ids has L ids or fewer.
C19_TruncToMax ==
  LastOp = "trunc" =>
    /\ tkIds = SubSeq(tkPrev, 1, Min(tkLen, Len(tkPrev)))
    /\ Len(tkIds) <= tkLen
    /\ Len(tkPrev) <= tkLen => tkIds = tkPrev

\* C19 witness: ids that start and end differently lost two or more ids.
C19_Witness ==
  /\ LastOp = "trunc"
  /\ tkLen >= 1
  /\ Len(tkPrev) >= tkLen + 2
  /\ tkPrev[1] # tkPrev[Len(tkPrev)]

\* C20 as claimed: the result of pad_to_max and the result of trunc_to_max
\* have max_seq_len ids.
C20_ExactLength ==
  LastOp \in {"pad", "trunc"} => Len(tkIds) = tkLen

\* C20 amended: the result of pad_to_max has max_seq_len ids; the result of
\* trunc_to_max has min(max_seq_len, len(ids)) ids, max_seq_len of them when
\* ids had max_seq_len or more (as after a pad_to_max to that length).
C20_LengthAfterBoth ==
  /\ LastOp = "pad" => Len(tkIds) = tkLen
  /\ LastOp = "trunc" =>
       /\ Len(tkIds) = Min(tkLen, Len(tkPrev))
       /\ Len(tkPrev) >= tkLen => Len(tkIds) = tkLen

\* C20 witness: ids were padded, from fewer, and then truncated to the
\* length they were padded to.
C20_Witness ==
  /\ tkOps = <<"pad", "trunc">>
  /\ Len(tkPrev) = tkLen
  /\ tkLen > 0
  /\ tkPrev[Len(tkPrev)] = pad_tkid
  /\ tkPrev[1] # pad_tkid

\* The four ranges of the constructed model, in the order of the units.
LstmRanges == << lstm.fg_range, lstm.ig_range, lstm.og_range, lstm.mc_range >>

\* C21: a constructed LSTM-2002 model with n_blk >= 1 blocks of d_blk >= 1
\* cells has fg_range = [0, n_blk), ig_range = [n_blk, 2 n_blk), og_range =
\* [2 n_blk, 3 n_blk) and mc_range = [3 n_blk, n_blk (3 + d_blk)); the four
\* ranges are pairwise disjoint, each starts where the one before ends, and
\* together they are exactly the n_blk (3 + d_blk) outputs of the
\* projections; g_range = [0, 3 n_blk) selects exactly the units of the three
\* gates, and d_hid = n_blk d_blk is the number of units of mc_range.
C21_GateRangesPartition ==
  lstm # None =>
    LET n == lstm.n_blk
        d == lstm.d_blk
        out == lstm.proj_e2cg[1]
        S(rng) == Slice(rng, out)
    IN /\ lstm.fg_range = << 0, n >>
       /\ lstm.ig_range = << n, 2 * n >>
       /\ lstm.og_range = << 2 * n, 3 * n >>
       /\ lstm.mc_range = << 3 * n, n * (3 + d) >>
       /\ \A i, j \in 1 .. 4 :
            i # j => S(LstmRanges[i]) \cap S(LstmRanges[j]) = {}
       /\ LstmRanges[1][1] = 0
       /\ \A i \in 1 .. 3 : LstmRanges[i][2] = LstmRanges[i + 1][1]
       /\ \A i \in 1 .. 4 : LstmRanges[i][1] < LstmRanges[i][2]
       /\ out = n * (3 + d)
       /\ lstm.proj_h2cg[1] = out
       /\ UNION { S(LstmRanges[i]) : i \in 1 .. 4 } = 0 .. out - 1
       /\ lstm.g_range = << 0, 3 * n >>
       /\ S(lstm.g_range)
            = S(lstm.fg_range) \cup S(lstm.ig_range) \cup S(lstm.og_range)
       /\ lstm.d_hid = n * d
       /\ Cardinality(S(lstm.mc_range)) = lstm.d_hid
       /\ lstm.proj_h2cg[2] = lstm.d_hid

\* A model with several blocks of several cells has been constructed.
C21_Witness ==
  /\ lstm # None
  /\ lstm.n_blk >= 2
  /\ lstm.d_blk >= 2
  /\ lstm.mc_range[2] - lstm.mc_range[1] > lstm.d_blk

\* The positions of txt where a run of non-whitespace characters starts.
RunStarts(txt) ==
  { i \in 1 .. Len(txt) : ~IsSpace(txt[i]) /\ (i = 1 \/ IsSpace(txt[i - 1])) }

\* The position where the run that starts at position i ends.
RunEnd(txt, i) ==
  CHOOSE j \in i .. Len(txt) :
    /\ \A k \in i .. j : ~IsSpace(txt[k])
    /\ j = Len(txt) \/ IsSpace(txt[j + 1])

\* The maximal runs of non-whitespace characters of txt, from left to right.
Runs(txt) ==
  LET S == RunStarts(txt)
      nth(k) == CHOOSE i \in S : Cardinality({ x \in S : x < i }) = k - 1
  IN [k \in 1 .. Cardinality(S) |-> SubSeq(txt, nth(k), RunEnd(txt, nth(k)))]

\* No token is empty or holds a whitespace character.
CleanTokens(tks) ==
  \A k \in 1 .. Len(tks) :
    /\ tks[k] # <<>>
    /\ \A i \in 1 .. Len(tks[k]) : ~IsSpace(tks[k][i])

\* The text is empty or made of whitespace only.
Blank(txt) == \A i \in 1 .. Len(txt) : IsSpace(txt[i])

\* C22: whitespace tokenization (WsTknzr.tknz and
\* WhitespaceDictTokenizer.tokenize) returns the maximal non-whitespace runs
\* of the normalized text, in order; no token is empty or holds whitespace,
\* leading and trailing whitespace gives no token, and an empty or
\* whitespace-only text gives [] and never [''].
C22_TokensAreRuns ==
  /\ tkOps = <<"tknz">> =>
       /\ tkTks = Runs(norm(tkTxt))
       /\ CleanTokens(tkTks)
       /\ Blank(tkTxt) => tkTks = <<>>
       /\ tkTks # << <<>> >>
  /\ tkOps = <<"tokenize">> =>
       /\ tkTks = Runs(Normalized(tkTxt))
       /\ CleanTokens(tkTks)
       /\ Blank(tkTxt) => tkTks = <<>>
       /\ tkTks # << <<>> >>

\* The dictionary tokenizer has tokenized a text of two words that starts
\* with a space and ends with a newline.
C22_Witness ==
  /\ tkOps = <<"tokenize">>
  /\ Len(tkTxt) > 2
  /\ IsSpace(Head(tkTxt))
  /\ IsSpace(tkTxt[Len(tkTxt)])
  /\ Len(tkTks) = 2

\* The text neither starts nor ends with whitespace.
Trimmed(txt) ==
  txt # <<>> => ~IsSpace(Head(txt)) /\ ~IsSpace(txt[Len(txt)])

\* C23: detokenizing the tokens of a text gives the tokens joined by exactly
\* one space, without leading or trailing whitespace, and tokenizing that
\* text again gives the same tokens.
C23_DetokenizeIdempotent ==
  /\ tkOps = <<"tknz", "dtknz">> =>
       /\ tkOut = Join(tkTks)
       /\ Trimmed(tkOut)
       /\ tknz(tkOut) = tkTks
  /\ tkOps = <<"tokenize", "detokenize">> =>
       /\ tkOut = Join(tkTks)
       /\ Trimmed(tkOut)
       /\ tokenize(tkOut) = tkTks

\* The tokens training added to the lookup table.
Learned == DOMAIN tknzr.tk2id \ SpecialTks

\* The tokens of the corpus that are not special tokens.
CorpusWords == { corpus[i] : i \in DOMAIN corpus } \ SpecialTks

\* C24: the vocabulary built by tokenizer training retains no non-special
\* token less frequent than min_count, has at most max_vocab tokens (no limit
\* when max_vocab is -1), admits the candidates in descending frequency with
\* ties in first-seen order, and assigns the ids contiguously from 0.
C24_BuiltVocabulary ==
  tkOps = <<"build_vocab">> =>
    /\ \A tk \in Learned : Freq(corpus, tk) >= tknzr.min_count
    /\ tknzr.max_vocab # -1 =>
         Cardinality(DOMAIN tknzr.tk2id) <= tknzr.max_vocab
    /\ \A t \in Learned, u \in Learned :
         tknzr.tk2id[t] < tknzr.tk2id[u] => Before(corpus, t, u)
    /\ \A t \in Learned, u \in CorpusWords \ Learned : Before(corpus, t, u)
    /\ { tknzr.tk2id[tk] : tk \in DOMAIN tknzr.tk2id }
         = 0 .. Cardinality(DOMAIN tknzr.tk2id) - 1

\* The special tokens are in the lookup table with their ids.
SpecialIdsFixed ==
  LET sp == SpecialSeq(tknzr.cls)
  IN \A i \in 1 .. 4 :
       sp[i] \in DOMAIN tknzr.tk2id /\ tknzr.tk2id[sp[i]] = i - 1

\* C25: the vocabulary of a new or reset tokenizer holds exactly the four
\* special tokens, with the ids bos = 0, eos = 1, pad = 2 and unk = 3, and
\* these ids stay what they are after any vocabulary building.
C25_SpecialIdsFixed ==
  tkGiven = "corpus" =>
    /\ tkOps = <<>> \/ LastOp = "reset_vocab" =>
         DOMAIN tknzr.tk2id = SpecialTks
    /\ SpecialIdsFixed
    /\ \A tk \in Learned : tknzr.tk2id[tk] > 3

\* A tokenizer has been trained on a corpus that holds its begin-of-text
\* token and a token it learned.
C25_Witness ==
  /\ tkOps = <<"build_vocab">>
  /\ \E i \in DOMAIN corpus : corpus[i] = SpecialSeq(tknzr.cls)[1]
  /\ Learned # {}

\* C26: a configuration that passes the validation has batch_size //
\* world_size >= 1, so that no process that passed the validation fails when
\* it constructs its data loader.
C26_AcceptedBatchSizePositive ==
  \A r \in Ranks :
    /\ pc[r] = "setup" => LocalBatchSize(r) >= 1
    /\ ~(pc[r] = "aborted" /\ dsetLen[r] > 0)

\* The sum of the elements a to b of the sequence sq.
RECURSIVE SumFrom(_, _, _)
SumFrom(sq, a, b) == IF a > b THEN 0 ELSE sq[a] + SumFrom(sq, a + 1, b)

\* The last step process r logged at, 0 if it has not logged.
LastLogged(r) == (step[r] \div args[r].log_step.v) * args[r].log_step.v

\* The average of the log_step losses up to step s of process r.
WindowAvg(r, s) ==
  [ num |-> SumFrom(losses[r], s - args[r].log_step.v + 1, s),
    den |-> args[r].log_step.v ]

\* C27: on every rank, the average loss reported at a step that is a
\* multiple of log_step is the sum of the losses of the log_step most recent
\* steps divided by log_step, and the accumulator restarts from 0 there; the
\* accumulator holds the losses since the last report whatever the epochs
\* they fall in, and the losses after the last multiple of log_step are
\* reported nowhere.
C27_LoggedWindowAverage ==
  /\ \A r \in Ranks :
       /\ Len(losses[r]) \in {step[r], step[r] + 1}
       /\ avg_loss[r] = SumFrom(losses[r], LastLogged(r) + 1, Len(losses[r]))
       /\ pre_avg_loss[r] =
            IF LastLogged(r) = 0 THEN [num |-> 0, den |-> 1]
            ELSE WindowAvg(r, LastLogged(r))
  /\ \A i \in DOMAIN scalars :
       scalars[i].tag = "train-loss" =>
         /\ scalars[i].step % args[HOST_RANK].log_step.v = 0
         /\ scalars[i].step <= step[HOST_RANK]
         /\ scalars[i].val = WindowAvg(HOST_RANK, scalars[i].step)
  /\ Cardinality({ i \in DOMAIN scalars : scalars[i].tag = "train-loss" })
       = step[HOST_RANK] \div args[HOST_RANK].log_step.v

\* The host has ended a training in which it logged the average of a window
\* of two steps and left a last step unreported.
C27_Witness ==
  /\ pc[HOST_RANK] = "done"
  /\ args[HOST_RANK].log_step.v = 2
  /\ step[HOST_RANK] = 3
  /\ pre_avg_loss[HOST_RANK].den = 2
  /\ avg_loss[HOST_RANK] > 0
  /\ \E i \in DOMAIN scalars :
       scalars[i].tag = "train-loss" /\ scalars[i].step = 2

\* Where process r is between the forward pass of a batch and the increment
\* of the step for that batch.
InBatch == {"backward", "clip", "optim"}

\* The batches process r has processed to the end of the loop body.
Processed(r) ==
  IF pc[r] \in InBatch THEN Len(losses[r]) - 1 ELSE Len(losses[r])

\* C28: the global step starts at 0, goes up by exactly one for every batch
\* processed and is not reset between epochs; when the training has ended,
\* rank 0 has written a checkpoint tagged with the final step, which is
\* n_epoch times the number of local batches of an epoch, the total_step
\* given to the scheduler.
C28_GlobalStep ==
  /\ \A r \in Ranks :
       /\ params[r] = None => step[r] = 0
       /\ step[r] = Processed(r)
       /\ pc[r] \in {"fetch", "forward", "joined", "shadow", "join_exit"}
            \cup InBatch => step[r] = epoch[r] * LoaderLen(r) + bi[r]
       /\ pc[r] \in {"last", "done"} =>
            /\ step[r] = args[r].n_epoch.v * LoaderLen(r)
            /\ step[r] = TotalStep(r)
  /\ pc[HOST_RANK] = "done" =>
       \E i \in DOMAIN ckpts :
         /\ ckpts[i].at = "last"
         /\ ckpts[i].rank = HOST_RANK
         /\ ckpts[i].ckpt = step[HOST_RANK]
         /\ ckpts[i].ckpt = TotalStep(HOST_RANK)

\* The host has ended a training of two epochs of three batches.
C28_Witness ==
  /\ pc[HOST_RANK] = "done"
  /\ args[HOST_RANK].n_epoch.v = 2
  /\ LoaderLen(HOST_RANK) = 3
  /\ step[HOST_RANK] = 6
  /\ ckpts[Len(ckpts)].ckpt = 6

\* Where a process is once its model is wrapped in DistributedDataParallel.
Wrapped ==
  { "epoch", "fetch", "forward", "backward", "clip", "optim", "joined",
    "shadow", "join_exit", "last", "done" }

\* Every process holds a replica, and all have made the same number of
\* optimizer steps.
SameSteps ==
  /\ \A r \in Ranks : pc[r] \in Wrapped
  /\ \A r, q \in Ranks : step[r] = step[q]

\* The data loaders of all processes have the same length.
SameLoaderLen == \A r, q \in Ranks : LoaderLen(r) = LoaderLen(q)

\* C29 as claimed: whenever all ranks have completed the same number of
\* optimizer steps, every rank holds the same parameters.
C29_LockStep ==
  SameSteps => \A r, q \in Ranks : params[r] = params[q]

\* C29 amended: whenever all ranks have data loaders of the same length and
\* have completed the same number of optimizer steps, every rank holds the
\* same parameters.
C29_LockStepSameLoaderLen ==
  SameSteps /\ SameLoaderLen => \A r, q \in Ranks : params[r] = params[q]

\* All ranks have data loaders of two batches or more and have made the
\* same two or more optimizer steps on the parameters of rank 0.
C29_Witness ==
  /\ SameSteps
  /\ SameLoaderLen
  /\ \A r \in Ranks :
       /\ step[r] >= 2
       /\ Len(params[r].updates) = step[r]
       /\ params[r].init = seedSet[HOST_RANK].v
       /\ seedSet[r] # seedSet[HOST_RANK] \/ r = HOST_RANK

====
